---- MODULE Spec2Model ----
(***************************************************************************)
(* Model of the market-state tracking engine of the Dungeons Profit        *)
(* Calculator: the listing store (utils/auctions.py), the bazaar store     *)
(* (utils/bazzar.py), and the update cycles that feed them.                *)
(*                                                                         *)
(* A SQLite table is a set of rows (records).  Primary keys are not built  *)
(* into the representation: INSERT OR REPLACE / INSERT OR IGNORE / INSERT  *)
(* are modelled by what they do to rows with a conflicting key, so key     *)
(* uniqueness is something the checks establish.                           *)
(*                                                                         *)
(* Item names are sequences of one-character strings, so that LOWER(),     *)
(* str.replace('_', ' ') and str.startswith() are computed character by    *)
(* character.                                                              *)
(*                                                                         *)
(* Columns that the code only copies from the upstream payload into a row  *)
(* and never reads in a condition (auctioneer, profile_id, category,       *)
(* highest_bid_amount, start, end, last_updated; the bazaar order/volume   *)
(* counts) are left out of the rows.                                       *)
(***************************************************************************)
EXTENDS Integers, Sequences, FiniteSets, TLC

VARIABLES
    auctions,          \* table auctions (current listing snapshot), committed
    auction_history,   \* table auction_history, committed
    auction_sales,     \* table auction_sales (Sale Events), committed
    update_log,        \* table update_log of auctions.db: sequence, index = id
    bazaar_current,    \* table bazaar_current, committed
    bazaar_products,   \* table bazaar_products (history), committed
    bazaar_log,        \* table update_log of bazaar.db: sequence, index = id
    now,               \* int(time.time() * 1000), in model ticks
    call,              \* the last operation performed and its arguments
    pc,                \* per ingesting process: the statement it is at
    loc,               \* per ingesting process: the locals of store_auctions
    tx,                \* per ingesting process: its connection's open transaction
    started,           \* number of store_auctions calls started; in SpecCycle,
                       \* SpecLoop and SpecServe: the clock when the last step
                       \* of an update cycle ended (0 before the first)
    committed,         \* SpecConc, SpecFetch: the auctions table as of the last
                       \* COMMIT; Spec: the snapshots that commits have
                       \* replaced, each with the time of that commit; the
                       \* other specifications: the tables that commits have
                       \* replaced while the request being served ran, in the
                       \* order of the commits, each with the time of its
                       \* commit
    view               \* what the last query of a reader saw

vars == <<auctions, auction_history, auction_sales, update_log,
          bazaar_current, bazaar_products, bazaar_log, now, call,
          pc, loc, tx, started, committed, view>>

\* The state of the concurrent specification SpecConc; the sequential
\* specifications leave it as it is.
concVars == <<pc, loc, tx, started, committed, view>>

listingStore == <<auctions, auction_history, auction_sales, update_log>>
bazaarStore == <<bazaar_current, bazaar_products, bazaar_log>>

(***************************************************************************)
(* Bounds of the model.                                                    *)
(***************************************************************************)
MaxTime == 2
MaxCycles == 3
MaxIngests == 2
MaxCalls == 4
MaxOverlap == 2

(***************************************************************************)
(* Strings.                                                                *)
(***************************************************************************)
UpperToLower ==
    [c \in {"A", "B", "C", "D", "E", "F", "G", "H", "I", "J", "K", "L", "M",
            "N", "O", "P", "Q", "R", "S", "T", "U", "V", "W", "X", "Y", "Z"} |->
        CASE c = "A" -> "a" [] c = "B" -> "b" [] c = "C" -> "c" [] c = "D" -> "d"
          [] c = "E" -> "e" [] c = "F" -> "f" [] c = "G" -> "g" [] c = "H" -> "h"
          [] c = "I" -> "i" [] c = "J" -> "j" [] c = "K" -> "k" [] c = "L" -> "l"
          [] c = "M" -> "m" [] c = "N" -> "n" [] c = "O" -> "o" [] c = "P" -> "p"
          [] c = "Q" -> "q" [] c = "R" -> "r" [] c = "S" -> "s" [] c = "T" -> "t"
          [] c = "U" -> "u" [] c = "V" -> "v" [] c = "W" -> "w" [] c = "X" -> "x"
          [] c = "Y" -> "y" [] c = "Z" -> "z"]

\* SQL LOWER(): ASCII upper-case letters become lower-case, the rest is kept.
LOWER(s) ==
    [i \in DOMAIN s |-> IF s[i] \in DOMAIN UpperToLower THEN UpperToLower[s[i]] ELSE s[i]]

\* item_name.replace('_', ' ')
UnderscoresToSpaces(s) ==
    [i \in DOMAIN s |-> IF s[i] = "_" THEN " " ELSE s[i]]

\* '_' in item_name
HasUnderscore(s) == \E i \in DOMAIN s : s[i] = "_"

\* str.startswith(prefix)
StartsWith(s, prefix) ==
    /\ Len(s) >= Len(prefix)
    /\ \A i \in 1..Len(prefix) : s[i] = prefix[i]

ENCHANTMENT_ == <<"E", "N", "C", "H", "A", "N", "T", "M", "E", "N", "T", "_">>

SeqsUpTo(S, n) == UNION {[1..k -> S] : k \in 0..n}

RECURSIVE Concat(_)
Concat(ss) == IF ss = <<>> THEN <<>> ELSE Head(ss) \o Concat(Tail(ss))

(***************************************************************************)
(* Listing store: store_auctions (utils/auctions.py).                      *)
(***************************************************************************)

\* One tuple of auction_data: the row of table auctions built from an
\* upstream auction dict.
AuctionRow(auction, fetch_timestamp) ==
    [uuid            |-> auction.uuid,
     item_name       |-> auction.item_name,
     tier            |-> auction.tier,
     starting_bid    |-> auction.starting_bid,
     bin             |-> IF auction.bin THEN 1 ELSE 0,
     claimed         |-> IF auction.claimed THEN 1 ELSE 0,
     fetch_timestamp |-> fetch_timestamp]

\* One tuple of history_data.
HistoryRow(auction, fetch_timestamp) ==
    [uuid            |-> auction.uuid,
     item_name       |-> auction.item_name,
     tier            |-> auction.tier,
     starting_bid    |-> auction.starting_bid,
     bin             |-> IF auction.bin THEN 1 ELSE 0,
     claimed         |-> IF auction.claimed THEN 1 ELSE 0,
     fetch_timestamp |-> fetch_timestamp]

\* SELECT ... FROM auctions WHERE bin = 1 AND claimed = 0
previous_auctions(table) == {r \in table : r.bin = 1 /\ r.claimed = 0}

current_uuids(poll) == {poll[i].uuid : i \in DOMAIN poll}

auction_data(poll, fetch_timestamp) ==
    [i \in DOMAIN poll |-> AuctionRow(poll[i], fetch_timestamp)]

IsLiveBin(auction) == auction.bin /\ ~auction.claimed

\* history_data without the condition on bin and claimed.
history_data_all(poll, fetch_timestamp) ==
    [i \in DOMAIN poll |-> HistoryRow(poll[i], fetch_timestamp)]

history_data(poll, fetch_timestamp) ==
    LET live == SelectSeq(poll, IsLiveBin)
    IN  [i \in DOMAIN live |-> HistoryRow(live[i], fetch_timestamp)]

\* sold_uuids without the set difference: every previous listing counts as sold.
sold_uuids_all(previous, poll) == {r.uuid : r \in previous}

sold_uuids(previous, poll) == {r.uuid : r \in previous} \ current_uuids(poll)

sales_data(previous, poll, fetch_timestamp) ==
    {[uuid           |-> r.uuid,
      item_name      |-> r.item_name,
      tier           |-> r.tier,
      price          |-> r.starting_bid,
      first_seen     |-> r.fetch_timestamp,
      last_seen      |-> r.fetch_timestamp,
      sold_timestamp |-> fetch_timestamp] :
        r \in {p \in previous : p.uuid \in sold_uuids(previous, poll)}}

\* The DELETE left out: the new poll is merged into the old snapshot.
DeleteAll_keep(table) == table

\* DELETE FROM auctions
DeleteAll(table) == {}

\* INSERT OR REPLACE INTO auctions: a row whose uuid (PRIMARY KEY) is already
\* in the table replaces that row.
InsertOrReplaceRow(table, row) == {t \in table : t.uuid # row.uuid} \cup {row}

\* executemany over the rows in order
RECURSIVE InsertOrReplaceAuctions(_, _)
InsertOrReplaceAuctions(table, rows) ==
    IF rows = <<>> THEN table
    ELSE InsertOrReplaceAuctions(InsertOrReplaceRow(table, Head(rows)), Tail(rows))

\* INSERT OR IGNORE INTO auction_history: a row whose (uuid, fetch_timestamp)
\* (PRIMARY KEY) is already in the table is dropped.
InsertOrIgnoreRow(table, row) ==
    IF \E t \in table : t.uuid = row.uuid /\ t.fetch_timestamp = row.fetch_timestamp
    THEN table
    ELSE table \cup {row}

RECURSIVE InsertOrIgnoreHistory(_, _)
InsertOrIgnoreHistory(table, rows) ==
    IF rows = <<>> THEN table
    ELSE InsertOrIgnoreHistory(InsertOrIgnoreRow(table, Head(rows)), Tail(rows))

\* A plain append to auction_sales, with no key to replace on.
InsertOrReplaceSales_append(table, rows) == table \cup rows

\* The table replaced by the rows of the call.
InsertOrReplaceSales_only(table, rows) == rows

\* INSERT OR REPLACE INTO auction_sales: uuid is the PRIMARY KEY.  The rows of
\* sales_data have pairwise distinct uuids (they come from dict keys).
InsertOrReplaceSales(table, rows) ==
    {t \in table : \A r \in rows : r.uuid # t.uuid} \cup rows

\* The three tables as store_auctions commits them on the committed tables
\* db, for the rows previous that its SELECT of line 198 returned.  The
\* SELECT runs before the transaction that the DELETE opens, so another
\* process can have committed in between and db.auctions need not be the
\* table the rows were read from.
store_auctions_from(previous, db, poll, fetch_timestamp) ==
    LET hist     == history_data(poll, fetch_timestamp)
        sales    == sales_data(previous, poll, fetch_timestamp)
    IN  [auctions        |-> InsertOrReplaceAuctions(DeleteAll(db.auctions),
                                                     auction_data(poll, fetch_timestamp)),
         auction_history |-> IF hist # <<>>
                             THEN InsertOrIgnoreHistory(db.auction_history, hist)
                             ELSE db.auction_history,
         auction_sales   |-> IF sales # {}
                             THEN InsertOrReplaceSales(db.auction_sales, sales)
                             ELSE db.auction_sales]

\* store_auctions with no commit of another process between its SELECT and
\* its DELETE.
store_auctions(db, poll, fetch_timestamp) ==
    store_auctions_from(previous_auctions(db.auctions), db, poll, fetch_timestamp)

\* INSERT INTO update_log (timestamp, total_pages, total_auctions, ...)
log_update_cycle(log, timestamp, total_pages, total_auctions) ==
    Append(log, [timestamp |-> timestamp])


(***************************************************************************)
(* Listing store: fetch_all_auctions (utils/auctions.py).                  *)
(*                                                                         *)
(* The upstream board is a record [totalPages, totalAuctions, pages]:      *)
(* pages[p + 1] is what fetch_page(p) yields, a record [status, auctions]  *)
(* with status "error" (fetch_page returned None), "nosuccess" (a payload  *)
(* without a truthy 'success') or "ok".  auctions is what the board holds  *)
(* on that page; the caller gets to read it only from a page that is "ok". *)
(***************************************************************************)
PageOk(page) == page.status = "ok"

\* first_page.get('auctions') followed by the auctions of every later page
\* that was fetched successfully; a failed page is skipped.
RECURSIVE all_auctions(_, _)
all_auctions(upstream, page) ==
    IF page >= upstream.totalPages /\ page >= 1 THEN <<>>
    ELSE (IF PageOk(upstream.pages[page + 1]) THEN upstream.pages[page + 1].auctions
          ELSE <<>>)
         \o all_auctions(upstream, page + 1)

\* Lines 149-183 with the early return on a failed first page left out.
fetch_all_auctions_noreturn(previous, db, upstream, fetch_timestamp) ==
    LET stored == store_auctions_from(previous, db, all_auctions(upstream, 0),
                                      fetch_timestamp)
    IN  [auctions        |-> stored.auctions,
         auction_history |-> stored.auction_history,
         auction_sales   |-> stored.auction_sales,
         stored          |-> TRUE]

\* Lines 149-183 of fetch_all_auctions: the listing tables when the call has
\* fetched the pages and store_auctions has committed, previous being what
\* the SELECT of store_auctions read and fetch_timestamp the clock it read.
\* stored tells whether the call got that far; it then goes on to
\* log_update_cycle (line 186), which opens a connection of its own and
\* reads the clock again.  On a failed first page the call returns with
\* nothing written.
fetch_all_auctions(previous, db, upstream, fetch_timestamp) ==
    IF ~PageOk(upstream.pages[1])
    THEN [auctions        |-> db.auctions,
          auction_history |-> db.auction_history,
          auction_sales   |-> db.auction_sales,
          stored          |-> FALSE]
    ELSE LET stored == store_auctions_from(previous, db, all_auctions(upstream, 0),
                                           fetch_timestamp)
         IN  [auctions        |-> stored.auctions,
              auction_history |-> stored.auction_history,
              auction_sales   |-> stored.auction_sales,
              stored          |-> TRUE]

ListingDb ==
    [auctions |-> auctions, auction_history |-> auction_history,
     auction_sales |-> auction_sales, update_log |-> update_log]

(***************************************************************************)
(* Processes that ingest into the same auctions.db (the web API's          *)
(* background fetcher, run_continuous, the fetch_data script), each with   *)
(* its own sqlite3 connection.                                             *)
(***************************************************************************)
Writers == {"w1", "w2"}

NoUpstream == [totalPages |-> 0, totalAuctions |-> 0, pages |-> <<>>]

\* The locals of one process: of store_auctions the poll, fetch_timestamp and
\* previous_auctions, with the outcome of its last call and the statement it
\* ended at; of fetch_all_auctions, when that is the caller, the board it
\* fetches from and the next page to fetch.
NoLoc ==
    [poll |-> <<>>, ts |-> 0, previous |-> {}, outcome |-> "none", at |-> "idle",
     caller |-> "none", upstream |-> NoUpstream, page |-> 0]

\* The transaction of a process's connection: open once the DELETE has run,
\* with the tables as the connection sees them; leaked when the
\* store_auctions that opened it has raised and the connection is still
\* alive.
NoTx ==
    [open |-> FALSE, leaked |-> FALSE, auctions |-> {}, auction_history |-> {},
     auction_sales |-> {}]

NoView == [seen |-> FALSE, rows |-> {}, committed |-> {}]

InitConcVars ==
    /\ pc = [w \in Writers |-> "idle"]
    /\ loc = [w \in Writers |-> NoLoc]
    /\ tx = [w \in Writers |-> NoTx]
    /\ started = 0
    /\ committed = {}
    /\ view = NoView

\* The same for the specifications of the queries, where committed is the
\* list of the tables that commits have replaced while a query ran: no
\* writer is at work.
InitCallVars ==
    /\ pc = [w \in Writers |-> "idle"]
    /\ loc = [w \in Writers |-> NoLoc]
    /\ tx = [w \in Writers |-> NoTx]
    /\ started = 0
    /\ committed = <<>>
    /\ view = NoView

(***************************************************************************)
(* Specification Spec: the listing store under a sequence of store_auctions*)
(* calls, one at a time, with the clock advancing between calls or not.    *)
(***************************************************************************)
UUIDs == {"u1", "u2"}
ItemNames == {<<"A">>}
Tiers == {"RARE"}
Prices == {100, 200}

\* The listings the upstream board can show: u1 is offered at 100, as a live
\* BIN (bin, not claimed), a claimed BIN or an open auction (not bin), and
\* u2 at 200 as a live BIN.
Listings ==
    {l \in [uuid : UUIDs, item_name : ItemNames, tier : Tiers, starting_bid : Prices,
             bin : BOOLEAN, claimed : BOOLEAN] :
        /\ l.starting_bid = (IF l.uuid = "u1" THEN 100 ELSE 200)
        /\ l.claimed => l.bin
        /\ l.uuid = "u2" => IsLiveBin(l)}

\* A poll is the list of auctions handed to store_auctions: no listing, one
\* listing, u1 followed by u2, or u1 twice, as a live BIN and as a claimed
\* one.
Polls ==
    {<<>>} \cup {<<a>> : a \in Listings}
    \cup {<<a, b>> \in Listings \X Listings :
            \/ a.uuid = "u1" /\ b.uuid = "u2"
            \/ a.uuid = "u1" /\ b.uuid = "u1" /\ a.bin /\ b.bin /\ a.claimed # b.claimed}

\* call records the last store_auctions call: its arguments, and two facts
\* about the state it ran in: resold, the uuids it detected as sold that
\* already had a Sale Event, and repeat, whether the call came next after a
\* store_auctions of the same poll (it read the clock and the snapshot after
\* that call had committed); previous is what its SELECT of line 198
\* returned.  observed[u] is the timestamp of the
\* first of the consecutive polls up to this one that left u in the snapshot
\* as a live BIN, 0 when this poll did not.
NoCall ==
    [op |-> "none", poll |-> <<>>, ts |-> 0, previous |-> {}, resold |-> {},
     repeat |-> FALSE, observed |-> [u \in UUIDs |-> 0]]

LiveIds(table) == {r.uuid : r \in previous_auctions(table)}

Init ==
    /\ auctions = {}
    /\ auction_history = {}
    /\ auction_sales = {}
    /\ update_log = <<>>
    /\ bazaar_current = {}
    /\ bazaar_products = {}
    /\ bazaar_log = <<>>
    /\ now = 1
    /\ call = NoCall
    /\ InitConcVars

\* time.time() advances.
Tick ==
    /\ now < MaxTime
    /\ now' = now + 1
    /\ UNCHANGED <<listingStore, bazaarStore, call, concVars>>

\* The snapshots that were in place and have been replaced, each with the
\* latest time at which it was replaced: log with the live BIN rows that the
\* commit at time t has just replaced added to it.
Replaced(log, rows, t) ==
    {e \in log : e.auctions # rows} \cup {[auctions |-> rows, until |-> t]}

\* What the SELECT of line 198 can return to a call that read the clock
\* (line 195) at fetch_timestamp and reaches its DELETE now: the live BIN
\* rows of the snapshot in place, or those of any snapshot that a commit
\* replaced after the clock was read.  The SELECT takes no lock that lasts,
\* so any number of commits of other processes fit before the DELETE.
PreviousReads(fetch_timestamp) ==
    {previous_auctions(auctions)}
    \cup {e.auctions : e \in {c \in committed : c.until >= fetch_timestamp}}

\* One call of HypixelAuctionTracker.store_auctions(poll), at its commit.
\* The call read the clock at ts and then the previous snapshot; the DELETE
\* that opens its transaction, and the commit, come now.
StoreAuctions ==
    /\ started < MaxCalls
    /\ started' = started + 1
    /\ \E poll \in Polls, ts \in 1..now :
        \E previous \in PreviousReads(ts) :
            LET db == store_auctions_from(previous, ListingDb, poll, ts)
            IN  /\ auctions' = db.auctions
                /\ auction_history' = db.auction_history
                /\ auction_sales' = db.auction_sales
                /\ call' = [op |-> "store_auctions", poll |-> poll, ts |-> ts,
                            previous |-> previous,
                            resold |-> {u \in sold_uuids(previous, poll) :
                                           \E s \in auction_sales : s.uuid = u},
                            repeat |-> /\ call.op = "store_auctions"
                                       /\ call.poll = poll
                                       /\ ts >= call.ts
                                       /\ previous = previous_auctions(auctions),
                            observed |-> [u \in UUIDs |->
                                IF u \notin LiveIds(db.auctions) THEN 0
                                ELSE IF u \in LiveIds(auctions) THEN call.observed[u]
                                ELSE ts]]
    /\ committed' = Replaced(committed, previous_auctions(auctions), now)
    /\ UNCHANGED <<update_log, bazaarStore, now, pc, loc, tx, view>>

Next ==
    \/ Tick
    \/ StoreAuctions

Spec == Init /\ [][Next]_vars

(***************************************************************************)
(* Bazaar store: store_bazaar_data and update (utils/bazzar.py).           *)
(*                                                                         *)
(* What fetch_bazaar_data meets upstream is a record [status, lastUpdated, *)
(* products]: status "error" (a RequestException), "nosuccess" (success    *)
(* false) or "ok"; lastUpdated 0 stands for a payload without the key;     *)
(* products is the dict product_id -> quick_status.                        *)
(***************************************************************************)

\* fetch_bazaar_data: the payload, or None (here the record NoData).
NoData == [status |-> "error", lastUpdated |-> 0, products |-> <<>>]

fetch_bazaar_data(response) == IF response.status = "ok" THEN response ELSE NoData

\* One tuple of current_data / history_data.
BazaarRow(product_id, quick_status, timestamp) ==
    [product_id      |-> product_id,
     sell_price      |-> quick_status.sellPrice,
     buy_price       |-> quick_status.buyPrice,
     buy_moving_week |-> quick_status.buyMovingWeek,
     timestamp       |-> timestamp]

bazaar_rows(data, timestamp) ==
    {BazaarRow(p, data.products[p], timestamp) : p \in DOMAIN data.products}

\* INSERT INTO bazaar_products: (product_id, timestamp) is the PRIMARY KEY, a
\* row that conflicts raises sqlite3.IntegrityError.
HistoryConflict(table, rows) ==
    \E t \in table : \E r \in rows :
        t.product_id = r.product_id /\ t.timestamp = r.timestamp

\* The current table with the DELETE left out.
DeleteCurrent_keep(table) == table

\* DELETE FROM bazaar_current
DeleteCurrent(table) == {}

\* The connection ending with what its statements wrote left in the file.
Rollback_flush(stored, pending) == pending

\* A connection that ends without commit(): sqlite rolls its transaction
\* back, the tables are those of the last commit.
Rollback(stored, pending) == stored

\* The bazaar tables as store_bazaar_data leaves them; raised tells whether
\* it ended in an exception.  The DELETE opens the transaction; when the
\* history INSERT raises, the connection holds the emptied and refilled
\* bazaar_current and the history rows inserted before the conflicting one
\* (at most those that do not conflict), and ends without commit().
store_bazaar_data(db, data, store_history, t) ==
    IF data.status # "ok"
    THEN [bazaar_current |-> db.bazaar_current, bazaar_products |-> db.bazaar_products,
          raised |-> FALSE]
    ELSE LET timestamp == IF data.lastUpdated # 0 THEN data.lastUpdated ELSE t
             rows == bazaar_rows(data, timestamp)
         IN  IF store_history /\ rows # {} /\ HistoryConflict(db.bazaar_products, rows)
             THEN LET stored  == [bazaar_current |-> db.bazaar_current,
                                  bazaar_products |-> db.bazaar_products]
                      pending == [bazaar_current |->
                                      DeleteCurrent(db.bazaar_current) \cup rows,
                                  bazaar_products |-> db.bazaar_products \cup
                                      {r \in rows : ~HistoryConflict(db.bazaar_products, {r})}]
                      ended   == Rollback(stored, pending)
                  IN  [bazaar_current |-> ended.bazaar_current,
                       bazaar_products |-> ended.bazaar_products, raised |-> TRUE]
             ELSE [bazaar_current |-> DeleteCurrent(db.bazaar_current) \cup rows,
                   bazaar_products |-> IF store_history /\ rows # {}
                                       THEN db.bazaar_products \cup rows
                                       ELSE db.bazaar_products,
                   raised |-> FALSE]

\* INSERT INTO update_log (timestamp, total_products, ...)
bazaar_log_update_cycle(log, timestamp, total_products) ==
    Append(log, [timestamp |-> timestamp])

\* Lines 317-322 of update: the bazaar tables when the call has fetched the
\* response and store_bazaar_data has ended, t being the clock that
\* store_bazaar_data read; raised tells whether it ended in an exception,
\* which leaves update too.  stored tells whether the call goes on to
\* log_update_cycle (line 324), which opens a connection of its own and reads
\* the clock again.  When fetch_bazaar_data gave None, update returns False
\* with nothing written.
update(db, response, store_history, t) ==
    LET data   == fetch_bazaar_data(response)
        stored == store_bazaar_data(db, data, store_history, t)
    IN  IF data = NoData
        THEN [bazaar_current  |-> db.bazaar_current,
              bazaar_products |-> db.bazaar_products,
              raised |-> FALSE, stored |-> FALSE]
        ELSE [bazaar_current  |-> stored.bazaar_current,
              bazaar_products |-> stored.bazaar_products,
              raised |-> stored.raised, stored |-> ~stored.raised]

BazaarDb ==
    [bazaar_current |-> bazaar_current, bazaar_products |-> bazaar_products,
     bazaar_log |-> bazaar_log]

(***************************************************************************)
(* Specification SpecCycle: update cycles of both stores, one at a time:   *)
(* fetch_all_auctions against a paged upstream board, and update against   *)
(* the upstream bazaar.                                                    *)
(***************************************************************************)
\* The board shows live BIN listings on at most two pages: u1, when it is
\* listed, on page 0 and u2 on page 1.
CycleListings(page) ==
    {l \in Listings : IsLiveBin(l) /\ l.uuid = (IF page = 0 THEN "u1" ELSE "u2")}

PageResponses(page) ==
    [status : {"error", "nosuccess", "ok"}, auctions : SeqsUpTo(CycleListings(page), 1)]

\* The ids of the listings that are on the upstream board, fetched or not.
Board(upstream) ==
    {a.uuid : a \in UNION {{upstream.pages[p].auctions[i] :
                                i \in DOMAIN upstream.pages[p].auctions} :
                            p \in DOMAIN upstream.pages}}

Upstreams ==
    UNION {{[totalPages |-> n,
             totalAuctions |-> Len(Concat([i \in DOMAIN ps |-> ps[i].auctions])),
             pages |-> ps] :
                ps \in {qs \in [1..(IF n = 0 THEN 1 ELSE n) ->
                                    PageResponses(0) \cup PageResponses(1)] :
                            \A p \in DOMAIN qs : qs[p] \in PageResponses(p - 1)}} :
           n \in 0..2}

ProductIds == {<<"A">>}

QuickStatuses == [sellPrice : {160}, buyPrice : {150}, buyMovingWeek : {0, 7}]

\* The products of a bazaar response: none, or A with a weekly volume of 7.
ProductDicts ==
    UNION {[ids -> {q \in QuickStatuses : q.buyMovingWeek = 7}] : ids \in SUBSET ProductIds}

BazaarResponses ==
    {NoData} \cup
    {[status |-> st, lastUpdated |-> lu, products |-> ps] :
        st \in {"nosuccess", "ok"}, lu \in 0..MaxTime, ps \in ProductDicts}

\* call records the cycle that is under way or ended last: of
\* fetch_all_auctions the first page's status, the poll handed to
\* store_auctions, the ids on the board and the fetch_timestamp; of update
\* the response's status, its products and the timestamp they are stored
\* under.  raised tells whether the store left with an exception, pending
\* whether the store has committed and log_update_cycle is still to run,
\* logged whether log_update_cycle has written the row of the cycle;
\* ingests counts the cycles so far whose store has committed.
NoCycle ==
    [op |-> "none", status |-> "none", poll |-> <<>>, board |-> {},
     total_pages |-> 0, total_auctions |-> 0,
     products |-> <<>>, timestamp |-> 0, raised |-> FALSE, pending |-> FALSE,
     logged |-> FALSE, ingests |-> 0]

InitCycle ==
    /\ auctions = {}
    /\ auction_history = {}
    /\ auction_sales = {}
    /\ update_log = <<>>
    /\ bazaar_current = {}
    /\ bazaar_products = {}
    /\ bazaar_log = <<>>
    /\ now = 1
    /\ call = NoCycle
    /\ InitConcVars

\* The clock as a call of a cycle can read it when the call's step ends
\* now: the call began when the step before it had ended, and the clock can
\* advance between the reading and the COMMIT that ends the step.
Clocks == (IF started = 0 THEN 1 ELSE started)..now

\* Lines 149-183 of HypixelAuctionTracker.fetch_all_auctions: the pages are
\* fetched and store_auctions runs to its COMMIT, which comes now;
\* fetch_timestamp is the clock it read at line 195.  The cycles of
\* SpecCycle come one after the other, so the SELECT of store_auctions reads
\* the snapshot in place (SpecConc and SpecFetch have the calls that
\* overlap).  locked: another connection holds the write lock for longer
\* than the busy timeout, the DELETE raises sqlite3.OperationalError and the
\* call ends with nothing written.
FetchAllAuctions ==
    /\ ~call.pending
    /\ call.ingests < MaxCycles
    /\ \E upstream \in Upstreams, locked \in BOOLEAN, fetch_timestamp \in Clocks :
        LET db     == fetch_all_auctions(previous_auctions(auctions), ListingDb,
                                         upstream, fetch_timestamp)
            raised == db.stored /\ locked
        IN  /\ auctions' = IF raised THEN auctions ELSE db.auctions
            /\ auction_history' = IF raised THEN auction_history
                                  ELSE db.auction_history
            /\ auction_sales' = IF raised THEN auction_sales ELSE db.auction_sales
            /\ call' = [op |-> "fetch_all_auctions",
                        status |-> upstream.pages[1].status,
                        poll |-> all_auctions(upstream, 0),
                        board |-> Board(upstream),
                        total_pages |-> upstream.totalPages,
                        total_auctions |-> upstream.totalAuctions,
                        products |-> <<>>,
                        timestamp |-> IF db.stored THEN fetch_timestamp ELSE 0,
                        raised |-> raised,
                        pending |-> db.stored /\ ~raised,
                        logged |-> FALSE,
                        ingests |-> call.ingests
                                    + (IF db.stored /\ ~raised THEN 1 ELSE 0)]
    /\ started' = now
    /\ UNCHANGED <<update_log, bazaarStore, now, pc, loc, tx, committed, view>>

\* Line 186 of fetch_all_auctions: log_update_cycle, on a connection of its
\* own and with the clock as it reads it then (line 296).  locked: the write
\* lock is held for longer than the busy timeout, the INSERT raises
\* sqlite3.OperationalError and fetch_all_auctions raises with the poll
\* stored and no row logged; the next cycle follows as after any other.
AuctionLogUpdateCycle ==
    /\ call.pending
    /\ call.op = "fetch_all_auctions"
    /\ \E timestamp \in Clocks, locked \in BOOLEAN :
        /\ update_log' = IF locked THEN update_log
                         ELSE log_update_cycle(update_log, timestamp, call.total_pages,
                                               call.total_auctions)
        /\ call' = [call EXCEPT !.pending = FALSE, !.logged = ~locked]
    /\ started' = now
    /\ UNCHANGED <<auctions, auction_history, auction_sales, bazaarStore, now,
                   pc, loc, tx, committed, view>>

\* Lines 317-322 of HypixelBazaarTracker.update: the response is fetched and
\* store_bazaar_data runs to its end, which comes now; t is the clock it
\* read at line 120, which it takes for a payload without lastUpdated.
\* locked: the write lock is held for longer
\* than the busy timeout, by another process or by the connection that an
\* earlier store_bazaar_data of this process left open when it raised and
\* that has not been collected yet: the DELETE raises
\* sqlite3.OperationalError and the call ends with nothing written.
Update ==
    /\ ~call.pending
    /\ call.ingests < MaxCycles
    /\ \E response \in BazaarResponses, locked \in BOOLEAN, t \in Clocks :
        LET db   == update(BazaarDb, response, TRUE, t)
            busy == fetch_bazaar_data(response) # NoData /\ locked
        IN  /\ bazaar_current' = IF busy THEN bazaar_current ELSE db.bazaar_current
            /\ bazaar_products' = IF busy THEN bazaar_products ELSE db.bazaar_products
            /\ call' = [op |-> "update", status |-> response.status,
                        poll |-> <<>>, board |-> {},
                        total_pages |-> 0, total_auctions |-> 0,
                        products |-> fetch_bazaar_data(response).products,
                        timestamp |-> IF response.lastUpdated # 0
                                      THEN response.lastUpdated ELSE t,
                        raised |-> busy \/ db.raised,
                        pending |-> db.stored /\ ~busy,
                        logged |-> FALSE,
                        ingests |-> call.ingests
                                    + (IF db.stored /\ ~busy THEN 1 ELSE 0)]
    /\ started' = now
    /\ UNCHANGED <<bazaar_log, listingStore, now, pc, loc, tx, committed, view>>

\* Line 324 of update: log_update_cycle, on a connection of its own and with
\* the clock as it reads it then (line 186).  locked: the INSERT raises
\* sqlite3.OperationalError and update raises with the poll stored and no
\* row logged; the next cycle follows as after any other.
BazaarLogUpdateCycle ==
    /\ call.pending
    /\ call.op = "update"
    /\ \E timestamp \in Clocks, locked \in BOOLEAN :
        /\ bazaar_log' = IF locked THEN bazaar_log
                         ELSE bazaar_log_update_cycle(bazaar_log, timestamp,
                                  Cardinality(DOMAIN call.products))
        /\ call' = [call EXCEPT !.pending = FALSE, !.logged = ~locked]
    /\ started' = now
    /\ UNCHANGED <<bazaar_current, bazaar_products, listingStore, now,
                   pc, loc, tx, committed, view>>

NextCycle ==
    \/ Tick
    \/ FetchAllAuctions
    \/ AuctionLogUpdateCycle
    \/ Update
    \/ BazaarLogUpdateCycle

SpecCycle == InitCycle /\ [][NextCycle]_vars

(***************************************************************************)
(* Specification SpecConc: store_auctions statement by statement, run by   *)
(* two processes on the same database file, with a reader beside them.     *)
(*                                                                         *)
(* sqlite3 (default isolation level): the SELECT of the previous snapshot  *)
(* runs outside any transaction and sees the committed tables.  The DELETE *)
(* opens the implicit transaction and takes the database's write lock; it  *)
(* waits while another connection holds that lock and raises "database is  *)
(* locked" when the wait times out.  Until COMMIT the statements change    *)
(* only the connection's own view (tx); other connections read the         *)
(* committed tables.  A connection that ends without COMMIT is rolled      *)
(* back: at once when its process ends, and, after an exception that the   *)
(* caller has caught, when the garbage collector frees the connection;     *)
(* until then it keeps its transaction and the write lock.                 *)
(***************************************************************************)

\* The polls of SpecConc: the live BIN listings of u1 and u2, each on the
\* board or not.
ConcPolls ==
    LET u1 == CHOOSE l \in Listings : l.uuid = "u1" /\ IsLiveBin(l)
        u2 == CHOOSE l \in Listings : l.uuid = "u2" /\ IsLiveBin(l)
    IN  {<<>>, <<u1>>, <<u2>>, <<u1, u2>>}

InTransaction == {"insert", "history", "sales", "commit"}

InStore == {"select", "delete"} \cup InTransaction

\* Lines 192-195: connect and take fetch_timestamp from the clock.
FetchTimestamp(w) ==
    /\ pc[w] = "idle"
    /\ started < MaxIngests
    /\ \E poll \in ConcPolls :
        loc' = [loc EXCEPT ![w] = [NoLoc EXCEPT !.poll = poll, !.ts = now]]
    /\ pc' = [pc EXCEPT ![w] = "select"]
    /\ started' = started + 1
    /\ UNCHANGED <<listingStore, bazaarStore, now, call, tx, committed, view>>

\* Lines 198-199: SELECT the previous live BIN listings, in autocommit mode:
\* the read takes no lock that lasts, other connections may commit before
\* the DELETE.
SelectPrevious(w) ==
    /\ pc[w] = "select"
    /\ loc' = [loc EXCEPT ![w].previous = previous_auctions(auctions)]
    /\ pc' = [pc EXCEPT ![w] = "delete"]
    /\ UNCHANGED <<listingStore, bazaarStore, now, call, tx, started, committed, view>>

\* The DELETE run in autocommit mode: it empties the committed table at once.
Delete_autocommit(w) ==
    /\ pc[w] = "delete"
    /\ \A v \in Writers : ~tx[v].open
    /\ auctions' = DeleteAll(auctions)
    /\ tx' = [tx EXCEPT ![w] = [open |-> TRUE, leaked |-> FALSE,
                                auctions |-> DeleteAll(auctions),
                                auction_history |-> auction_history,
                                auction_sales |-> auction_sales]]
    /\ pc' = [pc EXCEPT ![w] = "insert"]
    /\ UNCHANGED <<auction_history, auction_sales, update_log, bazaarStore, now, call,
                   loc, started, committed, view>>

\* Line 266: DELETE FROM auctions, which begins the transaction.  It gets
\* the write lock when no connection holds it, a leaked connection of the
\* same process included.
Delete(w) ==
    /\ pc[w] = "delete"
    /\ \A v \in Writers : ~tx[v].open
    /\ tx' = [tx EXCEPT ![w] = [open |-> TRUE, leaked |-> FALSE,
                                auctions |-> DeleteAll(auctions),
                                auction_history |-> auction_history,
                                auction_sales |-> auction_sales]]
    /\ pc' = [pc EXCEPT ![w] = "insert"]
    /\ UNCHANGED <<listingStore, bazaarStore, now, call, loc, started, committed, view>>

\* Line 266 when another connection holds the write lock for longer than the
\* busy timeout: sqlite3.OperationalError, the call ends with nothing written.
Busy(w) ==
    /\ pc[w] = "delete"
    /\ \E v \in Writers : tx[v].open
    /\ pc' = [pc EXCEPT ![w] = "idle"]
    /\ loc' = [loc EXCEPT ![w].outcome = "busy", ![w].at = "delete", ![w].previous = {}]
    /\ UNCHANGED <<listingStore, bazaarStore, now, call, tx, started, committed, view>>

\* Lines 267-269: INSERT OR REPLACE INTO auctions.
Insert(w) ==
    /\ pc[w] = "insert"
    /\ tx' = [tx EXCEPT ![w].auctions =
                InsertOrReplaceAuctions(@, auction_data(loc[w].poll, loc[w].ts))]
    /\ pc' = [pc EXCEPT ![w] = "history"]
    /\ UNCHANGED <<listingStore, bazaarStore, now, call, loc, started, committed, view>>

\* Lines 272-275: INSERT OR IGNORE INTO auction_history.
History(w) ==
    /\ pc[w] = "history"
    /\ LET hist == history_data(loc[w].poll, loc[w].ts)
       IN  tx' = [tx EXCEPT ![w].auction_history =
                    IF hist # <<>> THEN InsertOrIgnoreHistory(@, hist) ELSE @]
    /\ pc' = [pc EXCEPT ![w] = "sales"]
    /\ UNCHANGED <<listingStore, bazaarStore, now, call, loc, started, committed, view>>

\* Lines 278-282: INSERT OR REPLACE INTO auction_sales.
Sales(w) ==
    /\ pc[w] = "sales"
    /\ LET sales == sales_data(loc[w].previous, loc[w].poll, loc[w].ts)
       IN  tx' = [tx EXCEPT ![w].auction_sales =
                    IF sales # {} THEN InsertOrReplaceSales(@, sales) ELSE @]
    /\ pc' = [pc EXCEPT ![w] = "commit"]
    /\ UNCHANGED <<listingStore, bazaarStore, now, call, loc, started, committed, view>>

\* Lines 284-285: conn.commit(), conn.close(); store_auctions returns, to
\* line 185 when fetch_all_auctions called it.
Commit(w) ==
    /\ pc[w] = "commit"
    /\ auctions' = tx[w].auctions
    /\ auction_history' = tx[w].auction_history
    /\ auction_sales' = tx[w].auction_sales
    /\ committed' = tx[w].auctions
    /\ tx' = [tx EXCEPT ![w] = NoTx]
    /\ pc' = [pc EXCEPT ![w] = IF loc[w].caller = "fetch_all_auctions"
                                THEN "log" ELSE "idle"]
    /\ loc' = [loc EXCEPT ![w].outcome = "committed", ![w].at = "commit",
                          ![w].previous = {}]
    /\ UNCHANGED <<update_log, bazaarStore, now, call, started, view>>

\* A crash that leaves the statements executed so far in the database file.
Crash_flush(w) ==
    /\ pc[w] \in InStore
    /\ auctions' = IF tx[w].open THEN tx[w].auctions ELSE auctions
    /\ auction_history' = IF tx[w].open THEN tx[w].auction_history ELSE auction_history
    /\ auction_sales' = IF tx[w].open THEN tx[w].auction_sales ELSE auction_sales
    /\ tx' = [tx EXCEPT ![w] = NoTx]
    /\ pc' = [pc EXCEPT ![w] = "idle"]
    /\ loc' = [loc EXCEPT ![w].outcome = "crashed", ![w].at = pc[w], ![w].previous = {}]
    /\ UNCHANGED <<update_log, bazaarStore, now, call, started, committed, view>>

\* store_auctions left without COMMIT, anywhere after it has connected.
\* Either the process ends (it is killed, or nothing catches the exception):
\* its connections go with it and sqlite rolls the transaction back.  Or an
\* exception is raised and the caller catches it (lines 570-573, main.py
\* lines 80-82, fetch_data.py): store_auctions has no finally and never
\* closes conn, and the frame of store_auctions, which the traceback holds,
\* is garbage that only the cycle collector frees, so the connection stays
\* open with its transaction and its write lock while the process goes on.
Crash(w) ==
    /\ pc[w] \in InStore
    /\ \E caught \in BOOLEAN :
        tx' = IF caught THEN [tx EXCEPT ![w].leaked = tx[w].open]
              ELSE [tx EXCEPT ![w] = NoTx]
    /\ pc' = [pc EXCEPT ![w] = "idle"]
    /\ loc' = [loc EXCEPT ![w].outcome = "crashed", ![w].at = pc[w], ![w].previous = {}]
    /\ UNCHANGED <<listingStore, bazaarStore, now, call, started, committed, view>>

\* The garbage collector of the process frees the frame of a store_auctions
\* that raised, at a time of its own choosing: the connection is closed by
\* its finalizer without COMMIT and sqlite rolls its transaction back.
Collect(w) ==
    /\ tx[w].leaked
    /\ tx' = [tx EXCEPT ![w] = NoTx]
    /\ UNCHANGED <<listingStore, bazaarStore, now, call, pc, loc, started, committed, view>>

\* One query of a reader on table auctions, on a connection of its own.
Read ==
    /\ view' = [seen |-> TRUE, rows |-> auctions, committed |-> committed]
    /\ UNCHANGED <<listingStore, bazaarStore, now, call, pc, loc, tx, started, committed>>

InitConc ==
    /\ auctions = {}
    /\ auction_history = {}
    /\ auction_sales = {}
    /\ update_log = <<>>
    /\ bazaar_current = {}
    /\ bazaar_products = {}
    /\ bazaar_log = <<>>
    /\ now = 1
    /\ call = NoCall
    /\ InitConcVars

NextConc ==
    \/ Tick
    \/ Read
    \/ \E w \in Writers :
        \/ FetchTimestamp(w)
        \/ SelectPrevious(w)
        \/ Delete(w)
        \/ Busy(w)
        \/ Insert(w)
        \/ History(w)
        \/ Sales(w)
        \/ Commit(w)
        \/ Crash(w)
        \/ Collect(w)

SpecConc == InitConc /\ [][NextConc]_vars

(***************************************************************************)
(* Name resolution: get_lowest_bin (utils/auctions.py) and                 *)
(* get_product_info (utils/bazzar.py).                                     *)
(*                                                                         *)
(* cursor.fetchone() is modelled by the set of rows it may return: the     *)
(* empty set is None; more than one row is a tie that the engine breaks.   *)
(***************************************************************************)

\* ORDER BY starting_bid ASC LIMIT 1
LowestBid(rows) == {r \in rows : \A q \in rows : r.starting_bid <= q.starting_bid}

\* The exact match without the conditions on bin and claimed.
ExactBin_any(table, name) == LowestBid({r \in table : r.item_name = name})

\* WHERE item_name = ? AND bin = 1 AND claimed = 0
ExactBin(table, name) ==
    LowestBid({r \in table : r.item_name = name /\ r.bin = 1 /\ r.claimed = 0})

\* WHERE LOWER(item_name) = LOWER(?) AND bin = 1 AND claimed = 0
LowerBin(table, name) ==
    LowestBid({r \in table : LOWER(r.item_name) = LOWER(name) /\ r.bin = 1 /\ r.claimed = 0})

\* The guard without the exception for enchantment keys.
TrySpaces_any(name) == HasUnderscore(name)

\* '_' in item_name and not item_name.startswith('ENCHANTMENT_')
TrySpaces(name) == HasUnderscore(name) /\ ~StartsWith(name, ENCHANTMENT_)

\* item_dict
ItemDict(r) ==
    [uuid |-> r.uuid, item_name |-> r.item_name, price |-> r.starting_bid, tier |-> r.tier]

\* get_lowest_bin with the case-insensitive search before the search with
\* spaces.
get_lowest_bin_lower_first(table, item_name) ==
    LET r1 == ExactBin(table, item_name)
        r2 == IF r1 = {} THEN LowerBin(table, item_name) ELSE r1
        r3 == IF r2 = {} /\ TrySpaces(item_name)
              THEN ExactBin(table, UnderscoresToSpaces(item_name)) ELSE r2
        r4 == IF r3 = {} /\ TrySpaces(item_name)
              THEN LowerBin(table, UnderscoresToSpaces(item_name)) ELSE r3
    IN  {ItemDict(r) : r \in r4}

\* The dicts get_lowest_bin(item_name) may return; the empty set is None.
get_lowest_bin(table, item_name) ==
    LET r1 == ExactBin(table, item_name)
        r2 == IF r1 = {} /\ TrySpaces(item_name)
              THEN ExactBin(table, UnderscoresToSpaces(item_name)) ELSE r1
        r3 == IF r2 = {} THEN LowerBin(table, item_name) ELSE r2
        r4 == IF r3 = {} /\ TrySpaces(item_name)
              THEN LowerBin(table, UnderscoresToSpaces(item_name)) ELSE r3
    IN  {ItemDict(r) : r \in r4}

\* ORDER BY starting_bid ASC: the orders in which fetchall() may hand back
\* the rows; rows of equal price come in the engine's order.
OrderByBid(rows) ==
    {s \in [1..Cardinality(rows) -> rows] :
        \A i \in DOMAIN s : \A j \in DOMAIN s :
            i < j => s[i] # s[j] /\ s[i].starting_bid <= s[j].starting_bid}

\* The LIMIT clause left out.
Limit_none(s, limit) == s

\* LIMIT ?, for a limit that is not negative
Limit(s, limit) == SubSeq(s, 1, IF limit < Len(s) THEN limit ELSE Len(s))

\* The lists get_cheapest_listings(item_name, limit) may return.
get_cheapest_listings(table, item_name, limit) ==
    LET rows == {r \in table : r.item_name = item_name /\ r.bin = 1 /\ r.claimed = 0}
    IN  {[i \in DOMAIN Limit(s, limit) |-> ItemDict(s[i])] : s \in OrderByBid(rows)}

\* WHERE product_id = ?
ExactProduct(table, name) == {r \in table : r.product_id = name}

\* WHERE LOWER(product_id) = LOWER(?)
LowerProduct(table, name) == {r \in table : LOWER(r.product_id) = LOWER(name)}

\* The dict get_product_info returns for a row.
ProductDict(r) ==
    [product_id |-> r.product_id, sell_price |-> r.sell_price, buy_price |-> r.buy_price,
     buy_moving_week |-> r.buy_moving_week]

\* The dicts get_product_info(product_id) may return; the empty set is None.
get_product_info(table, product_id) ==
    LET r1 == ExactProduct(table, product_id)
        r2 == IF r1 = {} /\ TrySpaces(product_id)
              THEN ExactProduct(table, UnderscoresToSpaces(product_id)) ELSE r1
        r3 == IF r2 = {} THEN LowerProduct(table, product_id) ELSE r2
        r4 == IF r3 = {} /\ TrySpaces(product_id)
              THEN LowerProduct(table, UnderscoresToSpaces(product_id)) ELSE r3
    IN  {ProductDict(r) : r \in r4}

(***************************************************************************)
(* Queries beside writers.  Every SELECT of a query runs in autocommit     *)
(* mode, on a connection of its own, and reads the tables as they are      *)
(* committed when it runs, so any number of commits of the update loops    *)
(* fit between two SELECTs of one call, and between a reading of the clock *)
(* and a SELECT.  A query is one step, taken when the call returns; what   *)
(* the commits replaced while it ran is its input: hist, the tables as     *)
(* they were one after the other, the last being those in place, and ks,   *)
(* where the commits fell among the SELECTs of the call.                   *)
(***************************************************************************)
\* The tables of both stores that the queries read.
ValueDb ==
    [auctions |-> auctions, auction_sales |-> auction_sales,
     bazaar_current |-> bazaar_current, bazaar_products |-> bazaar_products,
     update_log |-> update_log, bazaar_log |-> bazaar_log]

\* The clock when the request that is being served came in; where no
\* request is modelled a call begins and returns now.
Since == IF call.op = "request" THEN call.clock ELSE now

\* The tables that a call returning now can have read, oldest first: those
\* that commits replaced while it ran, then those in place, each with the
\* time from which and the time until which they were in place.
Hist ==
    LET all == Append(committed, [tables |-> ValueDb, until |-> now])
    IN  [i \in DOMAIN all |->
            [tables |-> all[i].tables,
             from   |-> IF i = 1 THEN Since ELSE all[i - 1].until,
             until  |-> all[i].until]]

\* Where the commits can fall among the n SELECTs of a call: ks[j] is the
\* number of SELECTs, counted by their place in the code, that come before
\* the commit that replaced hist[j].
Switches(hist, n) ==
    {ks \in [1..(Len(hist) - 1) -> 0..n] :
        \A i \in DOMAIN ks : \A j \in DOMAIN ks : i < j => ks[i] <= ks[j]}

\* What the SELECT at place i reads.
Seen(hist, ks, i) == hist[1 + Cardinality({j \in DOMAIN ks : ks[j] < i})]

\* ks for the SELECTs that follow the first n.
Shift(ks, n) == [j \in DOMAIN ks |-> ks[j] - n]

\* What time.time() can give when it is read after the SELECT at place p
\* (0: when the call begins) and before the one at place q.
ClockReads(hist, ks, p, q) ==
    (IF p = 0 THEN hist[1].from ELSE Seen(hist, ks, p).from)..Seen(hist, ks, q).until

\* get_lowest_bin, lines 303-368, on table auctions.
get_lowest_bin_overlapped(hist, ks, item_name) ==
    LET r1 == ExactBin(Seen(hist, ks, 1).tables.auctions, item_name)
        r2 == IF r1 = {} /\ TrySpaces(item_name)
              THEN ExactBin(Seen(hist, ks, 2).tables.auctions,
                            UnderscoresToSpaces(item_name))
              ELSE r1
        r3 == IF r2 = {} THEN LowerBin(Seen(hist, ks, 3).tables.auctions, item_name)
              ELSE r2
        r4 == IF r3 = {} /\ TrySpaces(item_name)
              THEN LowerBin(Seen(hist, ks, 4).tables.auctions,
                            UnderscoresToSpaces(item_name))
              ELSE r3
    IN  {ItemDict(r) : r \in r4}

\* get_product_info, lines 193-252, on table bazaar_current.
get_product_info_overlapped(hist, ks, product_id) ==
    LET r1 == ExactProduct(Seen(hist, ks, 1).tables.bazaar_current, product_id)
        r2 == IF r1 = {} /\ TrySpaces(product_id)
              THEN ExactProduct(Seen(hist, ks, 2).tables.bazaar_current,
                                UnderscoresToSpaces(product_id))
              ELSE r1
        r3 == IF r2 = {}
              THEN LowerProduct(Seen(hist, ks, 3).tables.bazaar_current, product_id)
              ELSE r2
        r4 == IF r3 = {} /\ TrySpaces(product_id)
              THEN LowerProduct(Seen(hist, ks, 4).tables.bazaar_current,
                                UnderscoresToSpaces(product_id))
              ELSE r3
    IN  {ProductDict(r) : r \in r4}

(***************************************************************************)
(* Specification SpecQuery: lookups by name on a stored snapshot.  The two *)
(* stores are separate database files and a lookup reads one of them, so   *)
(* an initial state has one ingest in one of them.                         *)
(***************************************************************************)
\* The key "ENCHANTED_DIAMOND" and the name "enchanted diamond".
ENCHANTED_DIAMOND ==
    <<"E", "N", "C", "H", "A", "N", "T", "E", "D", "_", "D", "I", "A", "M", "O", "N", "D">>

enchanted_diamond ==
    <<"e", "n", "c", "h", "a", "n", "t", "e", "d", " ", "d", "i", "a", "m", "o", "n", "d">>

StoredNames ==
    {ENCHANTED_DIAMOND,
     <<"A", "_", "a">>, <<"A", " ", "a">>, <<"a", "_", "a">>, <<"a", " ", "a">>,
     ENCHANTMENT_ \o <<"A">>,
     <<"E", "N", "C", "H", "A", "N", "T", "M", "E", "N", "T", " ", "A">>,
     <<"e", "n", "c", "h", "a", "n", "t", "m", "e", "n", "t", "_", "a">>,
     <<"e", "n", "c", "h", "a", "n", "t", "m", "e", "n", "t", " ", "a">>}

QueryNames ==
    {enchanted_diamond,
     <<"A", "_", "a">>, <<"a", "_", "a">>, <<"A", " ", "a">>, <<"B", "_", "b">>,
     ENCHANTMENT_ \o <<"A">>,
     <<"e", "n", "c", "h", "a", "n", "t", "m", "e", "n", "t", "_", "a">>}

\* Listing u1 at 100 or 200 coins, listing u2 at 200 coins.
QueryListings ==
    {l \in [uuid : UUIDs, item_name : StoredNames, tier : Tiers, starting_bid : Prices,
            bin : BOOLEAN, claimed : BOOLEAN] :
        /\ l.uuid = "u2" => l.starting_bid = 200
        /\ l.claimed => l.bin}

QueryPolls ==
    {<<>>}
    \cup {<<l>> : l \in QueryListings}
    \cup {<<l1, l2>> : l1 \in {l \in QueryListings : l.uuid = "u1"},
                       l2 \in {l \in QueryListings : l.uuid = "u2"}}

QueryProducts ==
    UNION {[ids -> QuickStatuses] :
            ids \in {ns \in SUBSET StoredNames : Cardinality(ns) <= 2}}

EmptyListingDb ==
    [auctions |-> {}, auction_history |-> {}, auction_sales |-> {}, update_log |-> <<>>]

EmptyBazaarDb == [bazaar_current |-> {}, bazaar_products |-> {}, bazaar_log |-> <<>>]

NoQuery == [op |-> "none", name |-> <<>>, result |-> {}]

\* The stores after one store_auctions on a new listing database, or after
\* one store_bazaar_data on a new bazaar database.
InitQuery ==
    /\ \/ /\ \E poll \in QueryPolls :
                LET db == store_auctions(EmptyListingDb, poll, 1)
                IN  /\ auctions = db.auctions
                    /\ auction_history = db.auction_history
                    /\ auction_sales = db.auction_sales
          /\ bazaar_current = {}
          /\ bazaar_products = {}
       \/ /\ auctions = {}
          /\ auction_history = {}
          /\ auction_sales = {}
          /\ \E ps \in QueryProducts :
                LET db == store_bazaar_data(EmptyBazaarDb,
                              [status |-> "ok", lastUpdated |-> 1, products |-> ps],
                              TRUE, 1)
                IN  /\ bazaar_current = db.bazaar_current
                    /\ bazaar_products = db.bazaar_products
    /\ update_log = <<>>
    /\ bazaar_log = <<>>
    /\ now = 1
    /\ call = NoQuery
    /\ InitCallVars

\* get_lowest_bin answered by clearing the snapshot it read.
GetLowestBinOf_drop(names) ==
    /\ \E item_name \in names :
        call' = [op |-> "get_lowest_bin", name |-> item_name,
                 result |-> get_lowest_bin(auctions, item_name)]
    /\ auctions' = {}
    /\ UNCHANGED <<auction_history, auction_sales, update_log, bazaarStore, now, concVars>>

\* One call of HypixelAuctionTracker.get_lowest_bin, at its return: all its
\* SELECTs read the snapshot in place, or commits came between them.
\* fetchone() gave one of the rows found, None when there was none.  names
\* are the names asked for.
GetLowestBinOf(names) ==
    /\ \E item_name \in names :
        \E found \in {get_lowest_bin(auctions, item_name)}
                     \cup {get_lowest_bin_overlapped(Hist, ks, item_name) :
                            ks \in Switches(Hist, 4)} :
            \/ /\ found = {}
               /\ call' = [op |-> "get_lowest_bin", name |-> item_name, result |-> {}]
            \/ \E item_dict \in found :
                call' = [op |-> "get_lowest_bin", name |-> item_name,
                         result |-> {item_dict}]
    /\ committed' = <<>>
    /\ UNCHANGED <<listingStore, bazaarStore, now, pc, loc, tx, started, view>>

\* One call of HypixelBazaarTracker.get_product_info, at its return, as
\* GetLowestBinOf.
GetProductInfoOf(names) ==
    /\ \E product_id \in names :
        \E found \in {get_product_info(bazaar_current, product_id)}
                     \cup {get_product_info_overlapped(Hist, ks, product_id) :
                            ks \in Switches(Hist, 4)} :
            \/ /\ found = {}
               /\ call' = [op |-> "get_product_info", name |-> product_id, result |-> {}]
            \/ \E info \in found :
                call' = [op |-> "get_product_info", name |-> product_id,
                         result |-> {info}]
    /\ committed' = <<>>
    /\ UNCHANGED <<listingStore, bazaarStore, now, pc, loc, tx, started, view>>

\* One call of HypixelAuctionTracker.get_cheapest_listings, at its return:
\* its one SELECT read the snapshot in place or one that has been replaced
\* since.
GetCheapestListingsOf(names, limits) ==
    /\ \E item_name \in names, limit \in limits, h \in DOMAIN Hist :
        \E listings \in get_cheapest_listings(Hist[h].tables.auctions, item_name, limit) :
            call' = [op |-> "get_cheapest_listings", name |-> item_name,
                     limit |-> limit, result |-> listings]
    /\ committed' = <<>>
    /\ UNCHANGED <<listingStore, bazaarStore, now, pc, loc, tx, started, view>>

NextQuery ==
    \/ GetLowestBinOf(QueryNames)
    \/ GetProductInfoOf(QueryNames)
    \/ GetCheapestListingsOf(QueryNames, 0..2)

SpecQuery == InitQuery /\ [][NextQuery]_vars

(***************************************************************************)
(* Sales velocity: get_sales_per_day (utils/auctions.py).                  *)
(*                                                                         *)
(* Times are milliseconds.  A quotient that Python computes in floating    *)
(* point is kept as the fraction [num, den]; a value rounded to two        *)
(* decimals is kept in hundredths, so the sentinel -1 is -100.  An         *)
(* Optional value is a set: empty for None, else its one element.          *)
(***************************************************************************)
DefaultDays == 7

\* now_ms - (days * 24 * 60 * 60 * 1000)
days_ago_ms(now_ms, days) == now_ms - (days * 24 * 60 * 60 * 1000)

RECURSIVE SumPrice(_)
SumPrice(rows) ==
    IF rows = {} THEN 0
    ELSE LET r == CHOOSE x \in rows : TRUE IN r.price + SumPrice(rows \ {r})

MinPrice(rows) == CHOOSE p \in {r.price : r \in rows} : \A r \in rows : p <= r.price

MaxPrice(rows) == CHOOSE p \in {r.price : r \in rows} : \A r \in rows : p >= r.price

\* WHERE item_name = ? AND sold_timestamp >= ?
SalesSince(table, item_name, since) ==
    {r \in table : r.item_name = item_name /\ r.sold_timestamp >= since}

\* COUNT(*), AVG(price), MIN(price), MAX(price) over rows, as the dict returned
SalesStats(rows, item_name, days) ==
    [item_name      |-> item_name,
     total_sales    |-> Cardinality(rows),
     daily_sales    |-> [num |-> Cardinality(rows), den |-> days],
     avg_sale_price |-> [num |-> SumPrice(rows), den |-> Cardinality(rows)],
     min_sale_price |-> MinPrice(rows),
     max_sale_price |-> MaxPrice(rows),
     period_days    |-> days]

\* get_sales_per_day without the lower end of the window.
get_sales_per_day_alltime(table, item_name, days, now_ms) ==
    LET rows == SalesSince(table, item_name, 0)
    IN  IF Cardinality(rows) > 0 THEN {SalesStats(rows, item_name, days)} ELSE {}

\* get_sales_per_day(item_name, days) called at time now_ms.
get_sales_per_day(table, item_name, days, now_ms) ==
    LET rows == SalesSince(table, item_name, days_ago_ms(now_ms, days))
    IN  IF Cardinality(rows) > 0 THEN {SalesStats(rows, item_name, days)} ELSE {}

(***************************************************************************)
(* Valuation: get_item_value, calculate_chest_value and                    *)
(* get_last_update_times (api/chest_calculator.py).                        *)
(***************************************************************************)

\* The value of an Optional that is not None.
One(optional) == CHOOSE x \in optional : TRUE

\* What fetchone() may hand back: None, or one of the candidate rows.
Optional(results) == IF results = {} THEN {{}} ELSE {{x} : x \in results}

\* round(num / den, 2) in hundredths, for num >= 0 and den > 0.
Round2(num, den) ==
    LET n  == 100 * num
        fl == n \div den
        r  == n % den
    IN  IF 2 * r > den \/ (2 * r = den /\ fl % 2 = 1) THEN fl + 1 ELSE fl

\* "sales_per_day": -1
NoVelocity == -100

\* Lines 110-112: the velocity signal of the listing board.
AuctionVelocity(velocity) ==
    IF velocity # {} /\ One(velocity).daily_sales.num # 0
    THEN Round2(One(velocity).daily_sales.num, One(velocity).daily_sales.den)
    ELSE NoVelocity

\* The bazaar moving week taken whatever the listing board gave.
BazaarVelocity_always(sales_per_day, bazaar_item) ==
    IF bazaar_item.buy_moving_week # 0
    THEN Round2(bazaar_item.buy_moving_week, 7)
    ELSE sales_per_day

\* Lines 127-128: the bazaar moving week as the velocity signal.
BazaarVelocity(sales_per_day, bazaar_item) ==
    IF sales_per_day = NoVelocity /\ bazaar_item.buy_moving_week # 0
    THEN Round2(bazaar_item.buy_moving_week, 7)
    ELSE sales_per_day

\* The total taken as the price of one.
Priced_unit(price, quantity, market) ==
    [best_price |-> {price}, total_value |-> price, market |-> {market}]

\* One branch of lines 137-152.
Priced(price, quantity, market) ==
    [best_price |-> {price}, total_value |-> price * quantity, market |-> {market}]

\* The best price taken as the lower of the two markets' prices.
BestPrice_lower(auction_house, bazaar, quantity) ==
    IF auction_house # {} /\ bazaar # {}
    THEN LET ah_price == One(auction_house).lowest_bin
             bz_price == One(bazaar).insta_sell_price
         IN  IF ah_price <= bz_price
             THEN Priced(ah_price, quantity, "auction_house")
             ELSE Priced(bz_price, quantity, "bazaar")
    ELSE IF auction_house # {}
    THEN Priced(One(auction_house).lowest_bin, quantity, "auction_house")
    ELSE IF bazaar # {}
    THEN Priced(One(bazaar).insta_sell_price, quantity, "bazaar")
    ELSE [best_price |-> {}, total_value |-> 0, market |-> {}]

\* Lines 130-152: best_price, total_value and market.
BestPrice(auction_house, bazaar, quantity) ==
    IF auction_house # {} /\ bazaar # {}
    THEN LET ah_price == One(auction_house).lowest_bin
             bz_price == One(bazaar).insta_sell_price
         IN  IF ah_price >= bz_price
             THEN Priced(ah_price, quantity, "auction_house")
             ELSE Priced(bz_price, quantity, "bazaar")
    ELSE IF auction_house # {}
    THEN Priced(One(auction_house).lowest_bin, quantity, "auction_house")
    ELSE IF bazaar # {}
    THEN Priced(One(bazaar).insta_sell_price, quantity, "bazaar")
    ELSE [best_price |-> {}, total_value |-> 0, market |-> {}]

\* Lines 87-154 once get_lowest_bin returned auction_item and get_product_info
\* returned bazaar_item.
ItemValue(auction_item, bazaar_item, sales, item_name, quantity, now_ms) ==
    LET auction_house ==
            {[lowest_bin |-> a.price, tier |-> a.tier, total |-> a.price * quantity] :
                a \in auction_item}
        velocity ==
            IF auction_item # {}
            THEN get_sales_per_day(sales, item_name, DefaultDays, now_ms)
            ELSE {}
        listed == IF auction_item # {} THEN AuctionVelocity(velocity) ELSE NoVelocity
        bazaar ==
            {[insta_sell_price |-> b.buy_price, insta_buy_price |-> b.sell_price,
              total |-> b.buy_price * quantity] : b \in bazaar_item}
        sales_per_day ==
            IF bazaar_item # {} THEN BazaarVelocity(listed, One(bazaar_item)) ELSE listed
        best == BestPrice(auction_house, bazaar, quantity)
    IN  [item_name     |-> item_name,
         quantity      |-> quantity,
         found_in      |-> (IF auction_item # {} THEN <<"auction_house">> ELSE <<>>)
                           \o (IF bazaar_item # {} THEN <<"bazaar">> ELSE <<>>),
         auction_house |-> auction_house,
         bazaar        |-> bazaar,
         best_price    |-> best.best_price,
         total_value   |-> best.total_value,
         market        |-> best.market,
         sales_per_day |-> sales_per_day]

\* The results get_item_value(item_name, quantity) may return at time now_ms.
get_item_value(db, item_name, quantity, now_ms) ==
    {ItemValue(a, b, db.auction_sales, item_name, quantity, now_ms) :
        a \in Optional(get_lowest_bin(db.auctions, item_name)),
        b \in Optional(get_product_info(db.bazaar_current, item_name))}

\* The last update of an empty log reported as time 0 instead of None.
LastUpdate_epoch(log) ==
    LET stamps == {log[i].timestamp : i \in DOMAIN log}
    IN  IF stamps = {} THEN {0}
        ELSE {CHOOSE t \in stamps : \A u \in stamps : t >= u}

\* SELECT MAX(timestamp) FROM update_log; result[0] if result and result[0]
\* else None
LastUpdate(log) ==
    LET stamps == {log[i].timestamp : i \in DOMAIN log} \ {0}
    IN  IF stamps = {} THEN {}
        ELSE {CHOOSE t \in stamps : \A u \in stamps : t >= u}

\* get_last_update_times, the two timestamps of its result.
get_last_update_times(db) ==
    [auction_house |-> [last_update_timestamp |-> LastUpdate(db.update_log)],
     bazaar        |-> [last_update_timestamp |-> LastUpdate(db.bazaar_log)]]

\* Every priced or unpriced item counted as found.
Tally_all_found(summary, item_value) ==
    [summary EXCEPT !.items_found = @ + 1,
                    !.total_value = @ + item_value.total_value]

\* The unit price added to the total instead of price times quantity.
Tally_unit_price(summary, item_value) ==
    IF item_value.best_price # {}
    THEN [summary EXCEPT !.items_found = @ + 1,
                         !.total_value = @ + One(item_value.best_price)]
    ELSE [summary EXCEPT !.items_not_found = @ + 1]

\* Lines 194-198: the counters and the total after one item.
Tally(summary, item_value) ==
    IF item_value.best_price # {}
    THEN [summary EXCEPT !.items_found = @ + 1,
                         !.total_value = @ + item_value.total_value]
    ELSE [summary EXCEPT !.items_not_found = @ + 1]

\* The quotient taken for every supplied cost; den = 0 is the division by
\* zero.
roi_percent_unguarded(profit, chest_cost) == [num |-> profit * 100, den |-> chest_cost]

\* Line 204: (profit / chest_cost * 100) if chest_cost > 0 else 0
roi_percent(profit, chest_cost) ==
    IF chest_cost > 0
    THEN [num |-> profit * 100, den |-> chest_cost]
    ELSE [num |-> 0, den |-> 1]

\* Lines 201-204.
Profit(summary, chest_cost) ==
    IF chest_cost # {}
    THEN LET profit == summary.total_value - One(chest_cost)
         IN  [summary EXCEPT !.profit = {profit},
                             !.is_profitable = {profit > 0},
                             !.roi_percent = {roi_percent(profit, One(chest_cost))}]
    ELSE summary

\* No item passed over: a nameless item is valued like any other.
Skipped_never(item) == FALSE

\* Lines 185-189: if not item_name: continue
Skipped(item) == item.name = <<>>

\* Lines 184-198: the results the loop may build from the rest of the items.
RECURSIVE ChestLoop(_, _, _, _)
ChestLoop(db, items, results, now_ms) ==
    IF items = <<>> THEN {results}
    ELSE LET item == Head(items)
         IN  IF Skipped(item)
             THEN ChestLoop(db, Tail(items), results, now_ms)
             ELSE UNION {ChestLoop(db, Tail(items),
                                   [results EXCEPT !.items = Append(@, item_value),
                                                   !.summary = Tally(@, item_value)],
                                   now_ms) :
                            item_value \in
                                get_item_value(db, item.name, item.quantity, now_ms)}

\* The results calculate_chest_value(items, chest_cost) may return at time
\* now_ms; chest_cost is an Optional.  An item is [name, quantity], with the
\* empty name for a missing one.
calculate_chest_value(db, items, chest_cost, now_ms) ==
    LET results ==
            [items   |-> <<>>,
             summary |-> [total_items     |-> Len(items),
                          items_found     |-> 0,
                          items_not_found |-> 0,
                          total_value     |-> 0,
                          chest_cost      |-> chest_cost,
                          profit          |-> IF chest_cost = {} THEN {} ELSE {0},
                          is_profitable   |-> {},
                          roi_percent     |-> {}],
             last_updated |-> get_last_update_times(db)]
    IN  {[r EXCEPT !.summary = Profit(@, chest_cost)] :
            r \in ChestLoop(db, items, results, now_ms)}

\* get_item_value beside writers.  The SELECTs of the call in the order of
\* the code: four of get_lowest_bin, one of get_sales_per_day, which reads
\* the clock before it (line 478), and four of get_product_info.
get_item_value_overlapped(hist, ks, item_name, quantity) ==
    {ItemValue(a, b, Seen(hist, ks, 5).tables.auction_sales, item_name, quantity,
               now_ms) :
        a \in Optional(get_lowest_bin_overlapped(hist, ks, item_name)),
        b \in Optional(get_product_info_overlapped(hist, Shift(ks, 5), item_name)),
        now_ms \in ClockReads(hist, ks, 4, 5)}

\* The loop of calculate_chest_value beside writers, ks counting the
\* SELECTs of the items that are left; each valued item has nine.
RECURSIVE ChestLoopOverlapped(_, _, _, _)
ChestLoopOverlapped(hist, ks, items, results) ==
    IF items = <<>> THEN {results}
    ELSE LET item == Head(items)
         IN  IF Skipped(item)
             THEN ChestLoopOverlapped(hist, ks, Tail(items), results)
             ELSE UNION {ChestLoopOverlapped(hist, Shift(ks, 9), Tail(items),
                                   [results EXCEPT !.items = Append(@, item_value),
                                                   !.summary = Tally(@, item_value)]) :
                            item_value \in
                                get_item_value_overlapped(hist, ks, item.name,
                                                          item.quantity)}

\* calculate_chest_value beside writers: the two SELECTs of
\* get_last_update_times come first, then those of the items.
calculate_chest_value_overlapped(hist, ks, items, chest_cost) ==
    LET results ==
            [items   |-> <<>>,
             summary |-> [total_items     |-> Len(items),
                          items_found     |-> 0,
                          items_not_found |-> 0,
                          total_value     |-> 0,
                          chest_cost      |-> chest_cost,
                          profit          |-> IF chest_cost = {} THEN {} ELSE {0},
                          is_profitable   |-> {},
                          roi_percent     |-> {}],
             last_updated |->
                [auction_house |-> [last_update_timestamp |->
                                        LastUpdate(Seen(hist, ks, 1).tables.update_log)],
                 bazaar        |-> [last_update_timestamp |->
                                        LastUpdate(Seen(hist, ks, 2).tables.bazaar_log)]]]
    IN  {[r EXCEPT !.summary = Profit(@, chest_cost)] :
            r \in ChestLoopOverlapped(hist, Shift(ks, 2), items, results)}

\* The number of SELECTs of calculate_chest_value(items).
ChestReads(items) == 2 + 9 * Len(SelectSeq(items, LAMBDA item : ~Skipped(item)))

(***************************************************************************)
(* Specification SpecValue: get_item_value and get_sales_per_day on stores *)
(* that hold a listing snapshot, Sale Events of earlier polls and a bazaar *)
(* snapshot.                                                               *)
(***************************************************************************)
\* int(time.time() * 1000) at the time of the queries.
ValueNow == 700000000

\* Sale times: just outside the 7-day window, on its edge, a millisecond ago.
SoldTimes ==
    {days_ago_ms(ValueNow, DefaultDays) - 1, days_ago_ms(ValueNow, DefaultDays),
     ValueNow - 1}

ValueListingNames == {<<"A">>, <<"A", " ", "a">>}

ValueQueryNames == {<<"A">>, <<"A", "_", "a">>, <<"B">>}

\* The polls behind the current snapshot: empty, or listing u1.
ValuePolls ==
    {<<>>}
    \cup {<<[uuid |-> "u1", item_name |-> n, tier |-> "RARE", starting_bid |-> p,
             bin |-> TRUE, claimed |-> FALSE]>> : n \in ValueListingNames, p \in Prices}
    \cup {<<[uuid |-> "u1", item_name |-> <<"A">>, tier |-> "RARE", starting_bid |-> 100,
             bin |-> FALSE, claimed |-> FALSE]>>}

\* The Sale Event of listing uuid, seen live at time sold - 1 and gone from
\* the poll at time sold.
SaleEvent(uuid, item_name, price, sold) ==
    sales_data({AuctionRow([uuid |-> uuid, item_name |-> item_name, tier |-> "RARE",
                            starting_bid |-> price, bin |-> TRUE, claimed |-> FALSE],
                           sold - 1)},
               <<>>, sold)

ValueSales ==
    {s2 \cup s3 :
        s2 \in {{}} \cup {SaleEvent("u2", n, p, t) :
                            n \in ValueListingNames, p \in Prices, t \in SoldTimes},
        s3 \in {{}} \cup {SaleEvent("u3", <<"A">>, 200, t) :
                            t \in {days_ago_ms(ValueNow, DefaultDays) - 1, ValueNow - 1}}}

ValueProducts ==
    UNION {[ids -> [sellPrice : {160}, buyPrice : {50, 150, 200}, buyMovingWeek : {0, 7}]] :
            ids \in SUBSET {<<"A">>, <<"B">>}}

NoValue == [op |-> "none", name |-> <<>>, quantity |-> 0, days |-> 0, result |-> {}]

\* The rows that the polls in which the listings of the Sale Events were
\* last seen live have left in auction_history.
SeenLive(sales) ==
    {[uuid            |-> s.uuid,
      item_name       |-> s.item_name,
      tier            |-> s.tier,
      starting_bid    |-> s.price,
      bin             |-> 1,
      claimed         |-> 0,
      fetch_timestamp |-> s.last_seen] : s \in sales}

\* The stores after the store_auctions calls that saw the listings of the
\* Sale Events live and then gone, the last of them with the poll of the
\* snapshot at ValueNow - 1, and after one store_bazaar_data at that time.
InitValue ==
    /\ \E poll \in ValuePolls :
        LET db == store_auctions(EmptyListingDb, poll, ValueNow - 1)
        IN  /\ auctions = db.auctions
            /\ auction_sales \in ValueSales
            /\ auction_history = SeenLive(auction_sales) \cup db.auction_history
    /\ \E ps \in ValueProducts :
        LET db == store_bazaar_data(EmptyBazaarDb,
                      [status |-> "ok", lastUpdated |-> ValueNow - 1, products |-> ps],
                      TRUE, ValueNow - 1)
        IN  /\ bazaar_current = db.bazaar_current
            /\ bazaar_products = db.bazaar_products
    /\ update_log = <<>>
    /\ bazaar_log = <<>>
    /\ now = ValueNow
    /\ call = NoValue
    /\ InitCallVars

\* One call of ChestValueCalculator.get_item_value, at its return: all its
\* SELECTs read the tables in place and the clock stood at now, or commits
\* and ticks came between them.
GetItemValueOf(names, quantities) ==
    /\ \E item_name \in names, quantity \in quantities :
        \E item_value \in
                get_item_value(ValueDb, item_name, quantity, now)
                \cup UNION {get_item_value_overlapped(Hist, ks, item_name, quantity) :
                                ks \in Switches(Hist, 9)} :
            call' = [op |-> "get_item_value", name |-> item_name, quantity |-> quantity,
                     days |-> DefaultDays, result |-> {item_value}]
    /\ committed' = <<>>
    /\ UNCHANGED <<listingStore, bazaarStore, now, pc, loc, tx, started, view>>

\* One call of HypixelAuctionTracker.get_sales_per_day, at its return: it
\* read the clock (line 478) and then ran its one SELECT.
GetSalesPerDayOf(names, windows) ==
    /\ \E item_name \in names, days \in windows, ks \in Switches(Hist, 1) :
        \E now_ms \in ClockReads(Hist, ks, 0, 1) :
            call' = [op |-> "get_sales_per_day", name |-> item_name, quantity |-> 0,
                     days |-> days,
                     result |-> get_sales_per_day(Seen(Hist, ks, 1).tables.auction_sales,
                                                  item_name, days, now_ms)]
    /\ committed' = <<>>
    /\ UNCHANGED <<listingStore, bazaarStore, now, pc, loc, tx, started, view>>

NextValue ==
    \/ GetItemValueOf(ValueQueryNames, {1, 2})
    \/ GetSalesPerDayOf(ValueQueryNames \cup ValueListingNames, {1, DefaultDays})

SpecValue == InitValue /\ [][NextValue]_vars

(***************************************************************************)
(* Specification SpecChest: calculate_chest_value on stores that hold a    *)
(* listing snapshot and a bazaar snapshot.                                 *)
(***************************************************************************)
\* Items of a request; the empty name stands for an empty or missing "name".
ChestItems ==
    {[name |-> <<"A">>, quantity |-> 1], [name |-> <<"B">>, quantity |-> 2],
     [name |-> <<"A", "_", "a">>, quantity |-> 1], [name |-> <<>>, quantity |-> 1]}

ChestRequests == SeqsUpTo(ChestItems, 2)

\* chest_cost: None, 0 or 150.
ChestCosts == {{}, {0}, {150}}

ChestPolls ==
    {<<>>}
    \cup {<<[uuid |-> "u1", item_name |-> l[1], tier |-> "RARE", starting_bid |-> l[2],
             bin |-> TRUE, claimed |-> FALSE]>> :
            l \in {<<(<<"A">>), 100>>, <<(<<"A">>), 200>>, <<(<<"A", " ", "a">>), 100>>}}

ChestProducts ==
    UNION {[ids -> [sellPrice : {160}, buyPrice : {50, 150}, buyMovingWeek : {7}]] :
            ids \in SUBSET {<<"A">>, <<"B">>}}

NoChest == [op |-> "none", items |-> <<>>, chest_cost |-> {}, result |-> {}]

\* The stores after one store_auctions and one store_bazaar_data at
\* ValueNow - 1 on new databases, each with its log_update_cycle unless it
\* stored nothing.
InitChest ==
    /\ \E poll \in ChestPolls :
        LET db == store_auctions(EmptyListingDb, poll, ValueNow - 1)
        IN  /\ auctions = db.auctions
            /\ auction_history = db.auction_history
            /\ auction_sales = db.auction_sales
            /\ update_log = IF poll = <<>> THEN <<>>
                            ELSE log_update_cycle(<<>>, ValueNow - 1, 1, Len(poll))
    /\ \E ps \in ChestProducts :
        LET db == store_bazaar_data(EmptyBazaarDb,
                      [status |-> "ok", lastUpdated |-> ValueNow - 1, products |-> ps],
                      TRUE, ValueNow - 1)
        IN  /\ bazaar_current = db.bazaar_current
            /\ bazaar_products = db.bazaar_products
            /\ bazaar_log = IF ps = <<>> THEN <<>>
                            ELSE bazaar_log_update_cycle(<<>>, ValueNow - 1,
                                                         Cardinality(DOMAIN ps))
    /\ now = ValueNow
    /\ call = NoChest
    /\ InitCallVars

\* One call of ChestValueCalculator.calculate_chest_value, at its return, as
\* GetItemValueOf.
CalculateChestValueOf(requests, costs) ==
    /\ \E items \in requests, chest_cost \in costs :
        \E results \in
                calculate_chest_value(ValueDb, items, chest_cost, now)
                \cup UNION {calculate_chest_value_overlapped(Hist, ks, items, chest_cost) :
                                ks \in Switches(Hist, ChestReads(items))} :
            call' = [op |-> "calculate_chest_value", items |-> items,
                     chest_cost |-> chest_cost, result |-> {results}]
    /\ committed' = <<>>
    /\ UNCHANGED <<listingStore, bazaarStore, now, pc, loc, tx, started, view>>

NextChest == CalculateChestValueOf(ChestRequests, ChestCosts)

SpecChest == InitChest /\ [][NextChest]_vars

(***************************************************************************)
(* Specification SpecFetch: fetch_all_auctions statement by statement (one *)
(* fetch_page call per step, then the statements of store_auctions, then   *)
(* log_update_cycle), with get_lowest_bin running beside it query by       *)
(* query on a connection of its own.                                       *)
(*                                                                         *)
(* sqlite3: a SELECT outside a transaction reads the tables committed at   *)
(* the moment it runs, and its read lock is gone when fetchone() has       *)
(* returned the only row or None; the four SELECTs of get_lowest_bin are   *)
(* four such reads.                                                        *)
(***************************************************************************)
Fetchers == {"w1"}

\* The board of SpecFetch: u1, named "a" and offered at 100, on page 0 when
\* it is listed, and u2, named "A" and offered at 200, on page 1.
FetchListings(page) ==
    {[uuid |-> IF page = 0 THEN "u1" ELSE "u2",
      item_name |-> IF page = 0 THEN <<"a">> ELSE <<"A">>,
      tier |-> "RARE",
      starting_bid |-> IF page = 0 THEN 100 ELSE 200,
      bin |-> TRUE, claimed |-> FALSE]}

FetchPages(page) ==
    [status : {"error", "ok"}, auctions : SeqsUpTo(FetchListings(page), 1)]

FetchUpstreams ==
    UNION {{[totalPages |-> n,
             totalAuctions |-> Len(Concat([i \in DOMAIN ps |-> ps[i].auctions])),
             pages |-> ps] :
                ps \in {qs \in [1..n -> FetchPages(0) \cup FetchPages(1)] :
                            \A p \in DOMAIN qs : qs[p] \in FetchPages(p - 1)}} :
           n \in 1..2}

\* Lines 154-166: fetch_page(0); return when it failed, else take
\* total_pages and total_auctions and start all_auctions with its auctions.
FetchFirstPage(w) ==
    /\ pc[w] = "idle"
    /\ started < MaxIngests
    /\ \E upstream \in FetchUpstreams :
        IF ~PageOk(upstream.pages[1])
        THEN /\ loc' = [loc EXCEPT ![w] = [NoLoc EXCEPT !.outcome = "failed"]]
             /\ pc' = pc
        ELSE /\ loc' = [loc EXCEPT ![w] =
                    [NoLoc EXCEPT !.caller = "fetch_all_auctions",
                                  !.upstream = upstream,
                                  !.poll = upstream.pages[1].auctions,
                                  !.page = 1]]
             /\ pc' = [pc EXCEPT ![w] = "pages"]
    /\ started' = started + 1
    /\ UNCHANGED <<listingStore, bazaarStore, now, call, tx, committed, view>>

\* Lines 169-180, one pass of the loop: fetch_page(page); extend
\* all_auctions when it succeeded, skip the page when it failed.
FetchNextPage(w) ==
    /\ pc[w] = "pages"
    /\ loc[w].page < loc[w].upstream.totalPages
    /\ LET page_data == loc[w].upstream.pages[loc[w].page + 1]
           fetched   == IF PageOk(page_data) THEN page_data.auctions ELSE <<>>
       IN  loc' = [loc EXCEPT ![w].poll = @ \o fetched, ![w].page = @ + 1]
    /\ UNCHANGED <<listingStore, bazaarStore, now, call, pc, tx, started, committed, view>>

\* Line 183 and lines 192-195: after the last page, store_auctions is
\* called with all_auctions; it connects and takes fetch_timestamp.  The
\* SELECT of the previous live BIN listings is SelectPrevious.
StoreFetched(w) ==
    /\ pc[w] = "pages"
    /\ loc[w].page >= loc[w].upstream.totalPages
    /\ loc' = [loc EXCEPT ![w].ts = now]
    /\ pc' = [pc EXCEPT ![w] = "select"]
    /\ UNCHANGED <<listingStore, bazaarStore, now, call, tx, started, committed, view>>

\* Lines 185-186 and 290-296: log_update_cycle(total_pages, total_auctions,
\* duration) connects, on a connection of its own, and reads the clock for
\* the row before the INSERT is run.
LogTimestamp(w) ==
    /\ pc[w] = "log"
    /\ loc' = [loc EXCEPT ![w].ts = now]
    /\ pc' = [pc EXCEPT ![w] = "log_insert"]
    /\ UNCHANGED <<listingStore, bazaarStore, now, call, tx, started, committed, view>>

\* Lines 293-299: the INSERT INTO update_log, once it has the write lock,
\* the COMMIT and the return of fetch_all_auctions.  The one process of
\* SpecFetch finds the lock free: a connection it had left open would have
\* failed the DELETE of this cycle (SpecCycle and SpecLoop have the
\* log_update_cycle that finds the database locked by another process).
LogUpdateCycle(w) ==
    /\ pc[w] = "log_insert"
    /\ \A v \in Writers : ~tx[v].open
    /\ update_log' = log_update_cycle(update_log, loc[w].ts,
                                      loc[w].upstream.totalPages,
                                      loc[w].upstream.totalAuctions)
    /\ pc' = [pc EXCEPT ![w] = "idle"]
    /\ loc' = [loc EXCEPT ![w] = [NoLoc EXCEPT !.outcome = "committed", !.at = "log"]]
    /\ UNCHANGED <<auctions, auction_history, auction_sales, bazaarStore, now, call,
                   tx, started, committed, view>>

\* call holds the get_lowest_bin call in progress: its item_name, the query
\* it is at, result (what the last fetchone() handed back, the empty set
\* for None), seen (table auctions as each executed SELECT found it) and
\* fetching (whether the call began while a fetch cycle was fetching pages).
NoLookup ==
    [op |-> "none", name |-> <<>>, at |-> "done", result |-> {}, seen |-> {},
     fetching |-> FALSE]

LookupNames == {<<"A">>, <<"A", "_", "a">>}

\* Lines 303-315: connect and run the exact match.
LowestBinExact ==
    /\ call.at = "done"
    /\ \E item_name \in LookupNames : \E result \in Optional(ExactBin(auctions, item_name)) :
        call' = [op |-> "get_lowest_bin", name |-> item_name, at |-> "spaces",
                 result |-> result, seen |-> {auctions},
                 fetching |-> \E w \in Fetchers : pc[w] = "pages"]
    /\ UNCHANGED <<listingStore, bazaarStore, now, concVars>>

\* Lines 317-328: the exact match on the name with spaces, when nothing was
\* found and the name qualifies.
LowestBinSpaces ==
    /\ call.op = "get_lowest_bin" /\ call.at = "spaces"
    /\ IF call.result = {} /\ TrySpaces(call.name)
       THEN \E result \in Optional(ExactBin(auctions, UnderscoresToSpaces(call.name))) :
                call' = [call EXCEPT !.at = "lower", !.result = result,
                                     !.seen = @ \cup {auctions}]
       ELSE call' = [call EXCEPT !.at = "lower"]
    /\ UNCHANGED <<listingStore, bazaarStore, now, concVars>>

\* Lines 330-339: the case-insensitive match, when nothing was found.
LowestBinLower ==
    /\ call.op = "get_lowest_bin" /\ call.at = "lower"
    /\ IF call.result = {}
       THEN \E result \in Optional(LowerBin(auctions, call.name)) :
                call' = [call EXCEPT !.at = "lower_spaces", !.result = result,
                                     !.seen = @ \cup {auctions}]
       ELSE call' = [call EXCEPT !.at = "lower_spaces"]
    /\ UNCHANGED <<listingStore, bazaarStore, now, concVars>>

\* Lines 341-368: the case-insensitive match on the name with spaces, when
\* nothing was found and the name qualifies; close and return.
LowestBinLowerSpaces ==
    /\ call.op = "get_lowest_bin" /\ call.at = "lower_spaces"
    /\ IF call.result = {} /\ TrySpaces(call.name)
       THEN \E result \in Optional(LowerBin(auctions, UnderscoresToSpaces(call.name))) :
                call' = [call EXCEPT !.at = "done", !.result = result,
                                     !.seen = @ \cup {auctions}]
       ELSE call' = [call EXCEPT !.at = "done"]
    /\ UNCHANGED <<listingStore, bazaarStore, now, concVars>>

InitFetch ==
    /\ auctions = {}
    /\ auction_history = {}
    /\ auction_sales = {}
    /\ update_log = <<>>
    /\ bazaar_current = {}
    /\ bazaar_products = {}
    /\ bazaar_log = <<>>
    /\ now = 1
    /\ call = NoLookup
    /\ InitConcVars

NextFetch ==
    \/ Tick
    \/ LowestBinExact
    \/ LowestBinSpaces
    \/ LowestBinLower
    \/ LowestBinLowerSpaces
    \/ \E w \in Fetchers :
        \/ FetchFirstPage(w)
        \/ FetchNextPage(w)
        \/ StoreFetched(w)
        \/ SelectPrevious(w)
        \/ Delete(w)
        \/ Busy(w)
        \/ Insert(w)
        \/ History(w)
        \/ Sales(w)
        \/ Commit(w)
        \/ Crash(w)
        \/ Collect(w)
        \/ LogTimestamp(w)
        \/ LogUpdateCycle(w)

SpecFetch == InitFetch /\ [][NextFetch]_vars

(***************************************************************************)
(* Specification SpecLoop: the periodic update loops: the web API's        *)
(* background fetcher (main.py) and run_continuous of the two trackers.    *)
(* Each is the loop of a program of its own, and a behaviour follows one   *)
(* of them from its start; the loops that are not run are "off".  One step *)
(* is a call of update or fetch_all_auctions up to the commit of its       *)
(* store, the log_update_cycle that ends the call, or one time.sleep.      *)
(* pc[l] is the statement loop l is at, loc[l] how its last call went:     *)
(* "stored" when its store has committed and the log is still to come,     *)
(* "returned" after the log, "failed" when the fetch failed and the call   *)
(* returned without writing, "raised" when it left with an exception.      *)
(*                                                                         *)
(* An exception comes from sqlite: IntegrityError from store_bazaar_data,  *)
(* or OperationalError (database is locked) when another process holds    *)
(* the write lock for longer than the timeout; the latter is the input     *)
(* locked.  fetch_page and fetch_bazaar_data catch the request errors.     *)
(***************************************************************************)
RunLoops == {"auction_loop", "bazaar_loop"}

Loops == {"background"} \cup RunLoops

\* The boards the loops fetch from: one page with u1 on it, which is
\* fetched or fails.  Once the update log has MaxIngests rows only the
\* failure remains.
LoopUpstreams(log) ==
    {u \in Upstreams :
        /\ u.totalPages = 1
        /\ u.pages[1].status # "nosuccess"
        /\ u.pages[1].auctions # <<>>
        /\ Len(log) < MaxIngests \/ ~PageOk(u.pages[1])}

\* The bazaar responses of the loops: a failure, or product A without
\* lastUpdated, stored under the time of the call.
LoopResponses ==
    {r \in BazaarResponses :
        r = NoData \/ (r.status = "ok" /\ r.lastUpdated = 0 /\ DOMAIN r.products # {})}

\* fetch_all_auctions up to the end of store_auctions (lines 149-183): the
\* listing tables after it and how it ended: "failed" at the first page,
\* "raised" by the DELETE that found the database locked, or "stored", with
\* log_update_cycle still to run.
AuctionCycle(db, upstream, locked, t) ==
    LET cycle == fetch_all_auctions(previous_auctions(db.auctions), db, upstream, t)
    IN  IF ~cycle.stored THEN [db |-> db, ended |-> "failed"]
        ELSE IF locked THEN [db |-> db, ended |-> "raised"]
        ELSE [db |-> [auctions        |-> cycle.auctions,
                      auction_history |-> cycle.auction_history,
                      auction_sales   |-> cycle.auction_sales,
                      update_log      |-> db.update_log],
              ended |-> "stored"]

\* update up to the end of store_bazaar_data (lines 317-322): the bazaar
\* tables after it and how it ended, as for AuctionCycle.
BazaarCycle(db, response, locked, t) ==
    LET cycle == update(db, response, TRUE, t)
    IN  IF fetch_bazaar_data(response) = NoData THEN [db |-> db, ended |-> "failed"]
        ELSE IF locked THEN [db |-> db, ended |-> "raised"]
        ELSE [db |-> [bazaar_current  |-> cycle.bazaar_current,
                      bazaar_products |-> cycle.bazaar_products,
                      bazaar_log      |-> db.bazaar_log],
              ended |-> IF cycle.raised THEN "raised" ELSE "stored"]

NoLoop == [op |-> "none"]

\* The positions of a loop between the commit of a store and the
\* log_update_cycle of the same call.
LogPositions ==
    {"initial_bazaar_log", "initial_auctions_log", "bazaar_log", "auctions_log",
     "cycle_log"}

\* Where a loop goes on when the call at position p has returned.
AfterReturn(p) ==
    CASE p = "initial_bazaar_log"   -> "initial_auctions"
      [] p = "initial_auctions_log" -> "wait"
      [] p = "bazaar_log"           -> "auctions"
      [] p = "auctions_log"         -> "wait"
      [] p = "cycle_log"            -> "wait"

\* Where a loop goes on when the call at position p has raised: the two
\* initial calls have a try of their own, the others leave the loop body
\* for its handler.
AfterRaise(p) ==
    CASE p = "initial_bazaar_log"   -> "initial_auctions"
      [] p = "initial_auctions_log" -> "wait"
      [] p = "bazaar_log"           -> "retry"
      [] p = "auctions_log"         -> "retry"
      [] p = "cycle_log"            -> "retry"

\* A commit of a loop beside a request that is being served (SpecServe):
\* the tables that it replaces are kept, with the time of the commit, for
\* the SELECTs that the request's query ran before it.  At most MaxOverlap
\* commits that change the tables come while one request is served.
Overlap ==
    LET replaces == call.op = "request" /\ ValueDb' # ValueDb
    IN  /\ replaces => Len(committed) < MaxOverlap
        /\ committed' = IF replaces
                        THEN Append(committed, [tables |-> ValueDb, until |-> now])
                        ELSE committed

\* log_update_cycle at the end of the call loop l is in (auctions.py line
\* 186, bazzar.py line 324), on a connection of its own and with the clock
\* as it reads it then; the boards and responses of the loops have one page
\* with one listing, or one product.  When the database is locked the
\* INSERT raises and the call leaves with the exception.
LogUpdateCycleOf(l) ==
    /\ pc[l] \in LogPositions
    /\ \E locked \in BOOLEAN, timestamp \in Clocks :
        /\ IF locked THEN UNCHANGED <<update_log, bazaar_log>>
           ELSE IF pc[l] \in {"initial_bazaar_log", "bazaar_log"} \/ l = "bazaar_loop"
           THEN /\ bazaar_log' = bazaar_log_update_cycle(bazaar_log, timestamp, 1)
                /\ UNCHANGED update_log
           ELSE /\ update_log' = log_update_cycle(update_log, timestamp, 1, 1)
                /\ UNCHANGED bazaar_log
        /\ loc' = [loc EXCEPT ![l] = IF locked THEN "raised" ELSE "returned"]
        /\ pc' = [pc EXCEPT ![l] = IF locked THEN AfterRaise(pc[l])
                                   ELSE AfterReturn(pc[l])]
    /\ started' = now
    /\ UNCHANGED <<auctions, auction_history, auction_sales, bazaar_current,
                   bazaar_products, now, call, tx, view>>
    /\ Overlap

\* main.py lines 52-57: the initial bazaar update, in a try of its own.
InitialBazaar ==
    /\ pc["background"] = "initial_bazaar"
    /\ \E response \in LoopResponses : \E locked \in BOOLEAN, t \in Clocks :
        LET cycle == BazaarCycle(BazaarDb, response, locked, t)
        IN  /\ bazaar_current' = cycle.db.bazaar_current
            /\ bazaar_products' = cycle.db.bazaar_products
            /\ loc' = [loc EXCEPT !["background"] = cycle.ended]
            /\ pc' = [pc EXCEPT !["background"] =
                        IF cycle.ended = "stored" THEN "initial_bazaar_log"
                        ELSE IF cycle.ended = "raised" THEN "initial_auctions"
                        ELSE "initial_auctions"]
    /\ started' = now
    /\ UNCHANGED <<bazaar_log, listingStore, now, call, tx, view>>
    /\ Overlap

\* main.py lines 59-64: the initial listing fetch, in a try of its own.
InitialAuctions ==
    /\ pc["background"] = "initial_auctions"
    /\ \E upstream \in LoopUpstreams(update_log) : \E locked \in BOOLEAN, t \in Clocks :
        LET cycle == AuctionCycle(ListingDb, upstream, locked, t)
        IN  /\ auctions' = cycle.db.auctions
            /\ auction_history' = cycle.db.auction_history
            /\ auction_sales' = cycle.db.auction_sales
            /\ loc' = [loc EXCEPT !["background"] = cycle.ended]
            /\ pc' = [pc EXCEPT !["background"] =
                        IF cycle.ended = "stored" THEN "initial_auctions_log"
                        ELSE IF cycle.ended = "raised" THEN "wait"
                        ELSE "wait"]
    /\ started' = now
    /\ UNCHANGED <<update_log, bazaarStore, now, call, tx, view>>
    /\ Overlap

\* main.py line 69: time.sleep(1200) at the head of the loop body.
BackgroundSleep ==
    /\ pc["background"] = "wait"
    /\ pc' = [pc EXCEPT !["background"] = "bazaar"]
    /\ started' = now
    /\ UNCHANGED <<listingStore, bazaarStore, now, call, loc, tx, committed, view>>

\* main.py lines 73-74: bazaar_tracker.update() inside the loop's try; an
\* exception leaves the try for the handler.
BackgroundBazaar ==
    /\ pc["background"] = "bazaar"
    /\ \E response \in LoopResponses : \E locked \in BOOLEAN, t \in Clocks :
        LET cycle == BazaarCycle(BazaarDb, response, locked, t)
        IN  /\ bazaar_current' = cycle.db.bazaar_current
            /\ bazaar_products' = cycle.db.bazaar_products
            /\ loc' = [loc EXCEPT !["background"] = cycle.ended]
            /\ pc' = [pc EXCEPT !["background"] =
                        IF cycle.ended = "stored" THEN "bazaar_log"
                        ELSE IF cycle.ended = "raised" THEN "retry"
                        ELSE "auctions"]
    /\ started' = now
    /\ UNCHANGED <<bazaar_log, listingStore, now, call, tx, view>>
    /\ Overlap

\* main.py lines 77-78: auction_tracker.fetch_all_auctions() in the same try.
BackgroundAuctions ==
    /\ pc["background"] = "auctions"
    /\ \E upstream \in LoopUpstreams(update_log) : \E locked \in BOOLEAN, t \in Clocks :
        LET cycle == AuctionCycle(ListingDb, upstream, locked, t)
        IN  /\ auctions' = cycle.db.auctions
            /\ auction_history' = cycle.db.auction_history
            /\ auction_sales' = cycle.db.auction_sales
            /\ loc' = [loc EXCEPT !["background"] = cycle.ended]
            /\ pc' = [pc EXCEPT !["background"] =
                        IF cycle.ended = "stored" THEN "auctions_log"
                        ELSE IF cycle.ended = "raised" THEN "retry"
                        ELSE "wait"]
    /\ started' = now
    /\ UNCHANGED <<update_log, bazaarStore, now, call, tx, view>>
    /\ Overlap

\* main.py lines 80-82: except Exception: log, time.sleep(60), next pass.
BackgroundRetry ==
    /\ pc["background"] = "retry"
    /\ pc' = [pc EXCEPT !["background"] = "wait"]
    /\ started' = now
    /\ UNCHANGED <<listingStore, bazaarStore, now, call, loc, tx, committed, view>>

\* auctions.py lines 562-564: fetch_all_auctions inside run_continuous.
RunAuctions ==
    /\ pc["auction_loop"] = "cycle"
    /\ \E upstream \in LoopUpstreams(update_log) : \E locked \in BOOLEAN, t \in Clocks :
        LET cycle == AuctionCycle(ListingDb, upstream, locked, t)
        IN  /\ auctions' = cycle.db.auctions
            /\ auction_history' = cycle.db.auction_history
            /\ auction_sales' = cycle.db.auction_sales
            /\ loc' = [loc EXCEPT !["auction_loop"] = cycle.ended]
            /\ pc' = [pc EXCEPT !["auction_loop"] =
                        IF cycle.ended = "stored" THEN "cycle_log"
                        ELSE IF cycle.ended = "raised" THEN "retry"
                        ELSE "wait"]
    /\ started' = now
    /\ UNCHANGED <<update_log, bazaarStore, now, call, tx, view>>
    /\ Overlap

\* bazzar.py lines 341-343: update inside run_continuous.
RunBazaar ==
    /\ pc["bazaar_loop"] = "cycle"
    /\ \E response \in LoopResponses : \E locked \in BOOLEAN, t \in Clocks :
        LET cycle == BazaarCycle(BazaarDb, response, locked, t)
        IN  /\ bazaar_current' = cycle.db.bazaar_current
            /\ bazaar_products' = cycle.db.bazaar_products
            /\ loc' = [loc EXCEPT !["bazaar_loop"] = cycle.ended]
            /\ pc' = [pc EXCEPT !["bazaar_loop"] =
                        IF cycle.ended = "stored" THEN "cycle_log"
                        ELSE IF cycle.ended = "raised" THEN "retry"
                        ELSE "wait"]
    /\ started' = now
    /\ UNCHANGED <<bazaar_log, listingStore, now, call, tx, view>>
    /\ Overlap

\* time.sleep(update_interval) after a cycle that returned.
RunSleep(l) ==
    /\ pc[l] = "wait"
    /\ pc' = [pc EXCEPT ![l] = "cycle"]
    /\ started' = now
    /\ UNCHANGED <<listingStore, bazaarStore, now, call, loc, tx, committed, view>>

\* The loop left for good by the exception of a cycle.
RunRetry_end(l) ==
    /\ pc[l] = "retry"
    /\ pc' = [pc EXCEPT ![l] = "ended"]
    /\ started' = now
    /\ UNCHANGED <<listingStore, bazaarStore, now, call, loc, tx, committed, view>>

\* except Exception: log, time.sleep(60), next pass of while True.
RunRetry(l) ==
    /\ pc[l] = "retry"
    /\ pc' = [pc EXCEPT ![l] = "cycle"]
    /\ started' = now
    /\ UNCHANGED <<listingStore, bazaarStore, now, call, loc, tx, committed, view>>

\* KeyboardInterrupt in run_continuous: the loop is left.
KeyboardInterrupt(l) ==
    /\ pc[l] \in {"cycle", "cycle_log", "wait", "retry"}
    /\ pc' = [pc EXCEPT ![l] = "stopped"]
    /\ started' = now
    /\ UNCHANGED <<listingStore, bazaarStore, now, call, loc, tx, committed, view>>

\* Time passing beside the loops.
LoopTick ==
    /\ now < MaxTime
    /\ now' = now + 1
    /\ UNCHANGED <<listingStore, bazaarStore, call, concVars>>

InitLoop ==
    /\ auctions = {}
    /\ auction_history = {}
    /\ auction_sales = {}
    /\ update_log = <<>>
    /\ bazaar_current = {}
    /\ bazaar_products = {}
    /\ bazaar_log = <<>>
    /\ now = 1
    /\ call = NoLoop
    /\ \E run \in Loops :
        pc = [l \in Loops |-> IF l # run THEN "off"
                              ELSE IF l = "background" THEN "initial_bazaar"
                              ELSE "cycle"]
    /\ loc = [l \in Loops |-> "none"]
    /\ tx = [w \in Writers |-> NoTx]
    /\ started = 0
    /\ committed = <<>>
    /\ view = NoView

BackgroundStep ==
    \/ InitialBazaar
    \/ InitialAuctions
    \/ BackgroundSleep
    \/ BackgroundBazaar
    \/ BackgroundAuctions
    \/ BackgroundRetry
    \/ LogUpdateCycleOf("background")

RunStep(l) ==
    \/ l = "auction_loop" /\ RunAuctions
    \/ l = "bazaar_loop" /\ RunBazaar
    \/ LogUpdateCycleOf(l)
    \/ RunSleep(l)
    \/ RunRetry(l)

\* Each loop makes one step at a time; time passes beside them.
NextLoop ==
    \/ LoopTick
    \/ BackgroundStep
    \/ \E l \in RunLoops :
        \/ RunStep(l)
        \/ KeyboardInterrupt(l)

SpecLoop == InitLoop /\ [][NextLoop]_vars

\* Each loop is a running thread or process: a sleep ends and a call
\* returns or raises, so a loop that can take a step takes one.
SpecLoopFair ==
    /\ SpecLoop
    /\ WF_vars(BackgroundStep)
    /\ \A l \in RunLoops : WF_vars(RunStep(l))

(***************************************************************************)
(* Specification SpecServe: the web application of main.py.  One update    *)
(* loop fills the stores while the request handlers call the queries of    *)
(* the trackers and of the calculator on them; call holds the last query   *)
(* and its result.                                                         *)
(***************************************************************************)
\* The characters of the stored names in the order of their code points,
\* the order of SQLite's BINARY collation.
CodePoints ==
    <<" ", "A", "B", "C", "D", "E", "H", "I", "M", "N", "O", "T", "_",
      "a", "b", "c", "d", "e", "h", "i", "m", "n", "o", "t">>

CodePoint(c) == CHOOSE i \in DOMAIN CodePoints : CodePoints[i] = c

\* s sorts before t.
TextBefore(s, t) ==
    \/ Len(s) < Len(t) /\ SubSeq(t, 1, Len(s)) = s
    \/ \E i \in 1..(IF Len(s) < Len(t) THEN Len(s) ELSE Len(t)) :
        /\ SubSeq(s, 1, i - 1) = SubSeq(t, 1, i - 1)
        /\ CodePoint(s[i]) < CodePoint(t[i])

\* ORDER BY a text key that is unique among the rows.
OrderByText(rows, Key(_)) ==
    CHOOSE s \in [1..Cardinality(rows) -> rows] :
        \A i \in DOMAIN s : \A j \in DOMAIN s : i < j => TextBefore(Key(s[i]), Key(s[j]))

\* SQL text LIKE pattern, both in lower case: '%' stands for any run of
\* characters, '_' for any one character.
RECURSIVE LIKE(_, _)
LIKE(text, pattern) ==
    IF pattern = <<>> THEN text = <<>>
    ELSE IF Head(pattern) = "%"
    THEN LIKE(text, Tail(pattern)) \/ (text # <<>> /\ LIKE(Tail(text), pattern))
    ELSE /\ text # <<>>
         /\ Head(pattern) = "_" \/ Head(pattern) = Head(text)
         /\ LIKE(Tail(text), Tail(pattern))

\* WHERE LOWER(name) LIKE LOWER(?) with the parameter f'%{search_term}%'
LowerLike(name, search_term) ==
    LIKE(LOWER(name), LOWER(<<"%">> \o search_term \o <<"%">>))

\* SELECT item_name, MIN(starting_bid), tier, COUNT(*) ... GROUP BY item_name
\* over the live BIN listings: per name its lowest price, the tier of a row
\* at that price and the number of its listings; where rows of a name at its
\* lowest price differ in tier the engine takes one of them.
BinItems(live) ==
    LET Group(name) == {r \in live : r.item_name = name}
        groups ==
            {[item_name |-> r.item_name, lowest_bin |-> r.starting_bid, tier |-> r.tier,
              available_count |-> Cardinality(Group(r.item_name))] :
                r \in UNION {LowestBid(Group(n)) : n \in {l.item_name : l \in live}}}
    IN  {h \in SUBSET groups :
            \A n \in {l.item_name : l \in live} :
                Cardinality({d \in h : d.item_name = n}) = 1}

\* get_all_bin_items: the live BIN listings by name, ordered by name.
get_all_bin_items(table) ==
    {OrderByText(g, LAMBDA d : d.item_name) : g \in BinItems(previous_auctions(table))}

\* get_all_products: the product ids of the current snapshot, ordered.
get_all_products(table) ==
    LET ids == OrderByText(table, LAMBDA r : r.product_id)
    IN  [i \in DOMAIN ids |-> ids[i].product_id]

\* The orders in which fetchall() may hand back rows ordered by a number
\* Key, ascending; rows of equal Key come in the engine's order.
OrderByNumber(rows, Key(_)) ==
    {s \in [1..Cardinality(rows) -> rows] :
        \A i \in DOMAIN s : \A j \in DOMAIN s :
            i < j => s[i] # s[j] /\ Key(s[i]) <= Key(s[j])}

\* search_items(search_term), lines 396-420: the live BIN listings whose
\* name contains the term, by name, ORDER BY lowest_price ASC.
search_items(table, search_term) ==
    UNION {OrderByNumber(g, LAMBDA d : d.lowest_bin) :
            g \in BinItems({r \in previous_auctions(table) :
                                LowerLike(r.item_name, search_term)})}

\* get_item_sales_stats(search_term, days) called at time now_ms, lines
\* 509-553: the Sale Events since days_ago_ms whose name contains the term,
\* GROUP BY item_name, tier ORDER BY sales_count DESC.
get_item_sales_stats(table, search_term, days, now_ms) ==
    LET rows == {r \in table : /\ LowerLike(r.item_name, search_term)
                               /\ r.sold_timestamp >= days_ago_ms(now_ms, days)}
        Group(name, tier) == {r \in rows : r.item_name = name /\ r.tier = tier}
        stats == {[item_name      |-> r.item_name,
                   tier           |-> r.tier,
                   total_sales    |-> Cardinality(Group(r.item_name, r.tier)),
                   daily_sales    |-> [num |-> Cardinality(Group(r.item_name, r.tier)),
                                       den |-> days],
                   avg_sale_price |-> [num |-> SumPrice(Group(r.item_name, r.tier)),
                                       den |-> Cardinality(Group(r.item_name, r.tier))],
                   min_sale_price |-> MinPrice(Group(r.item_name, r.tier)),
                   max_sale_price |-> MaxPrice(Group(r.item_name, r.tier)),
                   period_days    |-> days] : r \in rows}
    IN  OrderByNumber(stats, LAMBDA d : 0 - d.total_sales)

\* search_products(search_term), lines 254-276: the products whose id
\* contains the term, ORDER BY product_id.
search_products(table, search_term) ==
    LET rows == OrderByText({r \in table : LowerLike(r.product_id, search_term)},
                            LAMBDA r : r.product_id)
    IN  [i \in DOMAIN rows |-> [product_id |-> rows[i].product_id,
                                 sell_price |-> rows[i].sell_price,
                                 buy_price  |-> rows[i].buy_price]]

\* get_price_history(product_id, hours) called at time now_ms, lines
\* 289-315: the rows of bazaar_products of the product with a timestamp
\* after cutoff_time, ORDER BY timestamp ASC, as tuples.
get_price_history(table, product_id, hours, now_ms) ==
    LET cutoff_time == now_ms - hours * 3600 * 1000
        rows == {r \in table : r.product_id = product_id /\ r.timestamp > cutoff_time}
        s    == CHOOSE t \in [1..Cardinality(rows) -> rows] :
                    \A i \in DOMAIN t : \A j \in DOMAIN t :
                        i < j => t[i].timestamp < t[j].timestamp
    IN  [i \in DOMAIN s |-> <<s[i].timestamp, s[i].sell_price, s[i].buy_price>>]

\* One call of HypixelAuctionTracker.get_all_bin_items, at its return: its
\* one SELECT read the snapshot in place or one that has been replaced
\* since.
GetAllBinItems ==
    /\ \E h \in DOMAIN Hist :
        \E items \in get_all_bin_items(Hist[h].tables.auctions) :
            call' = [op |-> "get_all_bin_items", result |-> items]
    /\ committed' = <<>>
    /\ UNCHANGED <<listingStore, bazaarStore, now, pc, loc, tx, started, view>>

\* One call of HypixelBazaarTracker.get_all_products, at its return.
GetAllProducts ==
    /\ \E h \in DOMAIN Hist :
        call' = [op |-> "get_all_products",
                 result |-> get_all_products(Hist[h].tables.bazaar_current)]
    /\ committed' = <<>>
    /\ UNCHANGED <<listingStore, bazaarStore, now, pc, loc, tx, started, view>>

\* One call of HypixelAuctionTracker.search_items, at its return, as
\* GetAllBinItems.
SearchItems(terms) ==
    /\ \E search_term \in terms, h \in DOMAIN Hist :
        \E items \in search_items(Hist[h].tables.auctions, search_term) :
            call' = [op |-> "search_items", name |-> search_term, result |-> items]
    /\ committed' = <<>>
    /\ UNCHANGED <<listingStore, bazaarStore, now, pc, loc, tx, started, view>>

\* One call of HypixelAuctionTracker.get_item_sales_stats, at its return: it
\* read the clock (line 524) and then ran its one SELECT.
GetItemSalesStats(terms, windows) ==
    /\ \E search_term \in terms, days \in windows, ks \in Switches(Hist, 1) :
        \E now_ms \in ClockReads(Hist, ks, 0, 1) :
            \E stats \in get_item_sales_stats(Seen(Hist, ks, 1).tables.auction_sales,
                                               search_term, days, now_ms) :
                call' = [op |-> "get_item_sales_stats", name |-> search_term,
                         days |-> days, result |-> stats]
    /\ committed' = <<>>
    /\ UNCHANGED <<listingStore, bazaarStore, now, pc, loc, tx, started, view>>

\* One call of HypixelBazaarTracker.search_products, at its return, as
\* GetAllProducts.
SearchProducts(terms) ==
    /\ \E search_term \in terms, h \in DOMAIN Hist :
        call' = [op |-> "search_products", name |-> search_term,
                 result |-> search_products(Hist[h].tables.bazaar_current, search_term)]
    /\ committed' = <<>>
    /\ UNCHANGED <<listingStore, bazaarStore, now, pc, loc, tx, started, view>>

\* One call of HypixelBazaarTracker.get_price_history, at its return: it
\* read the clock (line 303) and then ran its one SELECT.
GetPriceHistory(names, spans) ==
    /\ \E product_id \in names, hours \in spans, ks \in Switches(Hist, 1) :
        \E now_ms \in ClockReads(Hist, ks, 0, 1) :
            call' = [op |-> "get_price_history", name |-> product_id, hours |-> hours,
                     result |-> get_price_history(Seen(Hist, ks, 1).tables.bazaar_products,
                                                  product_id, hours, now_ms)]
    /\ committed' = <<>>
    /\ UNCHANGED <<listingStore, bazaarStore, now, pc, loc, tx, started, view>>

\* What the requests ask for: the name that the loops store, as it is
\* stored and in lower case, and chests of one item; search terms that
\* match it by its letter or by a wildcard, and one that does not.
ServeNames == {<<"A">>, <<"a">>}

ServeTerms == {<<"a">>, <<"_">>, <<"b">>}

ServeRequests == {<<[name |-> n, quantity |-> 1]>> : n \in ServeNames}

\* A request comes in and its handler begins; clock is the time then.
Request ==
    /\ call = NoLoop
    /\ call' = [op |-> "request", clock |-> now]
    /\ committed' = <<>>
    /\ UNCHANGED <<listingStore, bazaarStore, now, pc, loc, tx, started, view>>

\* The handler returns: jsonify(result).
Respond ==
    /\ call.op \notin {"none", "request"}
    /\ call' = NoLoop
    /\ UNCHANGED <<listingStore, bazaarStore, now, concVars>>

\* One request is served at a time, beside the loop.
NextServe ==
    \/ LoopTick
    \/ BackgroundStep
    \/ Request
    \/ call.op = "request" /\ GetLowestBinOf(ServeNames)
    \/ call.op = "request" /\ GetProductInfoOf(ServeNames)
    \/ call.op = "request" /\ GetCheapestListingsOf(ServeNames, {1})
    \/ call.op = "request" /\ GetSalesPerDayOf(ServeNames, {DefaultDays})
    \/ call.op = "request" /\ GetItemValueOf(ServeNames, {1})
    \/ call.op = "request" /\ CalculateChestValueOf(ServeRequests, {{}, {150}})
    \/ call.op = "request" /\ GetAllBinItems
    \/ call.op = "request" /\ GetAllProducts
    \/ call.op = "request" /\ SearchItems(ServeTerms)
    \/ call.op = "request" /\ GetItemSalesStats(ServeTerms, {DefaultDays})
    \/ call.op = "request" /\ SearchProducts(ServeTerms)
    \/ call.op = "request" /\ GetPriceHistory(ServeNames, {0, 24})
    \/ Respond

\* main.py starts the background fetcher and then serves requests.
InitServe == InitLoop /\ pc["background"] = "initial_bazaar"

SpecServe == InitServe /\ [][NextServe]_vars

(***************************************************************************)
(* Properties of the listing store, checked under Spec.                    *)
(***************************************************************************)

\* A step of Spec that is a store_auctions call (Tick is the only other
\* step, and it advances now).
StoreStep == now' = now /\ call'.op = "store_auctions"

SalesOf(table, uuid) == {s \in table : s.uuid = uuid}

\* C1 Sale detection: after store_auctions ingests a poll, every listing id
\* that was a live BIN (bin = 1, claimed = 0) of the snapshot in place
\* before the call's replace and is not among the poll's ids has exactly one
\* row in auction_sales, whose sold_timestamp is the poll's fetch timestamp
\* and whose price is the starting_bid that snapshot recorded.
C1_SaleDetection ==
    [][StoreStep =>
        \A r \in previous_auctions(auctions) :
            r.uuid \notin current_uuids(call'.poll) =>
                /\ Cardinality(SalesOf(auction_sales', r.uuid)) = 1
                /\ \A s \in SalesOf(auction_sales', r.uuid) :
                    /\ s.sold_timestamp = call'.ts
                    /\ s.price = r.starting_bid]_vars

\* C2 At most one Sale Event per listing id, in every state; and when a
\* store_auctions call detects as vanished an id that already has a Sale
\* Event, the id still has one row only, carrying the detecting poll's
\* timestamp as sold_timestamp.
C2_UniqueSaleEvent ==
    /\ [](\A s1 \in auction_sales : \A s2 \in auction_sales :
            s1.uuid = s2.uuid => s1 = s2)
    /\ [][StoreStep =>
            \A u \in call'.resold :
                /\ SalesOf(auction_sales, u) # {}
                /\ Cardinality(SalesOf(auction_sales', u)) = 1
                /\ \A s \in SalesOf(auction_sales', u) : s.sold_timestamp = call'.ts]_vars

\* A listing that had a Sale Event from an earlier time reappeared and was
\* detected as vanished again by the last call.
C2_Witness ==
    /\ call.op = "store_auctions"
    /\ call.resold # {}
    /\ \E s \in auction_sales :
        s.uuid \in call.resold /\ s.sold_timestamp = call.ts /\ s.sold_timestamp > 1

\* C3 Full-snapshot replace: after a committed store_auctions the auctions
\* table holds exactly one row per distinct listing id of the ingested poll,
\* no row of any other id, and every row carries that poll's fetch_timestamp.
C3_SnapshotReplace ==
    call.op = "store_auctions" =>
        /\ {r.uuid : r \in auctions} = current_uuids(call.poll)
        /\ \A r1 \in auctions : \A r2 \in auctions : r1.uuid = r2.uuid => r1 = r2
        /\ \A r \in auctions : r.fetch_timestamp = call.ts

\* The last poll listed one id twice, and the snapshot before it held another
\* id (its history row is from an earlier time).
C3_Witness ==
    /\ call.op = "store_auctions"
    /\ Len(call.poll) = 2
    /\ call.poll[1].uuid = call.poll[2].uuid
    /\ call.poll[1] # call.poll[2]
    /\ Cardinality(auctions) = 1
    /\ \E h \in auction_history :
        h.uuid # call.poll[1].uuid /\ h.fetch_timestamp < call.ts

\* C8 (as claimed) store_auctions called with an empty listing sequence
\* leaves the current snapshot, auction_sales and auction_history as they
\* were.
C8_EmptyPollRejected ==
    [][(StoreStep /\ call'.poll = <<>>) =>
        /\ auctions' = auctions
        /\ auction_sales' = auction_sales
        /\ auction_history' = auction_history]_vars

\* C9 (as claimed) Ingesting the same poll twice in a row creates no Sale
\* Event on the second ingest and leaves the auctions table equal to the
\* table after the first ingest.
C9_RepeatUnchanged ==
    [][(StoreStep /\ call'.repeat) =>
        /\ auction_sales' = auction_sales
        /\ auctions' = auctions]_vars

\* C9 (amended) Ingesting the same poll twice in a row leaves auction_sales
\* unchanged, and the auctions table after the second ingest is the table
\* after the first with every row's fetch_timestamp set to the second
\* ingest's timestamp.
C9_RepeatRestamped ==
    [][(StoreStep /\ call'.repeat) =>
        /\ auction_sales' = auction_sales
        /\ auctions' = {[r EXCEPT !.fetch_timestamp = call'.ts] : r \in auctions}]_vars

\* The same poll, holding a live BIN, was ingested twice in a row, the second
\* time at a later time than the first.
C9_Witness ==
    /\ call.op = "store_auctions"
    /\ call.repeat
    /\ \E i \in DOMAIN call.poll : IsLiveBin(call.poll[i])
    /\ \E h \in auction_history : h.fetch_timestamp < call.ts
    /\ \A r \in auctions : r.fetch_timestamp = call.ts

(***************************************************************************)
(* Properties of the update cycles, checked under SpecCycle.               *)
(***************************************************************************)

\* C7 A cycle whose bazaar fetch, or whose first listing page, fails or
\* comes without a truthy success indicator writes nothing: the snapshot, the
\* history and sale tables and the update log of that store are after the
\* cycle what they were before it.
C7_FailedFetchNoWrite ==
    [][(now' = now /\ call'.status \in {"error", "nosuccess"}) =>
        /\ call'.op = "fetch_all_auctions" => UNCHANGED listingStore
        /\ call'.op = "update" => UNCHANGED bazaarStore]_vars

\* The last listing cycle failed at its first page, a listing snapshot from
\* an earlier cycle is in place, and the bazaar holds data too.
C7_Witness ==
    /\ call.op = "fetch_all_auctions"
    /\ call.status = "nosuccess"
    /\ call.poll # <<>>
    /\ auctions # {}
    /\ Len(update_log) = 1
    /\ bazaar_current # {}

(***************************************************************************)
(* Properties of concurrent ingests and readers, checked under SpecConc.   *)
(***************************************************************************)

\* C4 Snapshot atomicity: what one query of a reader sees of table auctions
\* is the table as of the last COMMIT before the query, so the full snapshot
\* from before a concurrent store_auctions or the full one after it, never
\* the emptied table or a part of the new poll.
C4_ReaderSeesCommitted ==
    view.seen =>
        /\ view.rows = view.committed
        /\ \A r1 \in view.rows : \A r2 \in view.rows :
            r1.fetch_timestamp = r2.fetch_timestamp

\* A reader has seen the previous, non-empty snapshot while a store_auctions
\* of another poll had already run its DELETE and INSERT.
C4_Witness ==
    /\ view.seen
    /\ view.rows # {}
    /\ \E w \in Writers :
        /\ pc[w] \in {"history", "sales", "commit"}
        /\ tx[w].auctions # view.rows
        /\ view.rows = auctions

\* The committed tables after store_auctions' four writes for the locals l,
\* applied to the committed tables db.
AllWrites(db, l) ==
    LET hist  == history_data(l.poll, l.ts)
        sales == sales_data(l.previous, l.poll, l.ts)
    IN  [auctions        |-> InsertOrReplaceAuctions({}, auction_data(l.poll, l.ts)),
         auction_history |-> IF hist # <<>>
                             THEN InsertOrIgnoreHistory(db.auction_history, hist)
                             ELSE db.auction_history,
         auction_sales   |-> IF sales # {}
                             THEN InsertOrReplaceSales(db.auction_sales, sales)
                             ELSE db.auction_sales]

Committed3 ==
    [auctions |-> auctions, auction_history |-> auction_history,
     auction_sales |-> auction_sales]

\* C5 All or nothing: a step of a process inside store_auctions either leaves
\* the committed tables as they are (any statement before COMMIT, an
\* exception, a crash) or, at COMMIT, makes the snapshot delete and insert,
\* the history append and the Sale Event writes of its poll visible together;
\* and the end of a connection that a store_auctions left open when it
\* raised leaves the committed tables as they are.
C5_AllOrNothing ==
    [][\A w \in Writers :
        /\ (pc[w] \in InStore /\ pc'[w] # pc[w]) =>
                IF loc'[w].outcome = "committed"
                THEN Committed3' = AllWrites(Committed3, loc[w])
                ELSE Committed3' = Committed3
        /\ (tx[w].leaked /\ ~tx'[w].open) => Committed3' = Committed3]_vars

\* store_auctions raised after all four writes of a poll that differs from
\* the snapshot, right before COMMIT; its connection is still open with the
\* transaction, and the earlier snapshot is still in place.
C5_Witness ==
    \E w \in Writers :
        /\ loc[w].outcome = "crashed"
        /\ loc[w].at = "commit"
        /\ tx[w].leaked
        /\ auctions # {}
        /\ auctions = committed
        /\ current_uuids(loc[w].poll) # {r.uuid : r \in auctions}

\* C6 (as claimed) Ingests are serialized: every store_auctions that commits
\* has computed its sold set against the snapshot that is committed
\* immediately before its replace, and every live BIN listing of that snapshot
\* that is absent from the new one has a Sale Event stamped with this poll.
C6_IngestsSerialized ==
    [][\A w \in Writers :
        (pc[w] = "commit" /\ loc'[w].outcome = "committed") =>
            /\ loc[w].previous = previous_auctions(auctions)
            /\ \A r \in previous_auctions(auctions) :
                r.uuid \notin {a.uuid : a \in auctions'} =>
                    \E s \in auction_sales' :
                        s.uuid = r.uuid /\ s.sold_timestamp = loc[w].ts]_vars

(***************************************************************************)
(* Properties of the lookups by name, checked under SpecQuery.             *)
(***************************************************************************)

\* The stored names that step i of the resolution matches for a query.
Matches(names, query, i) ==
    CASE i = 1 -> {n \in names : n = query}
      [] i = 2 -> {n \in names : TrySpaces(query) /\ n = UnderscoresToSpaces(query)}
      [] i = 3 -> {n \in names : LOWER(n) = LOWER(query)}
      [] i = 4 -> {n \in names :
                     TrySpaces(query) /\ LOWER(n) = LOWER(UnderscoresToSpaces(query))}

\* The first step that matches, 0 when none does.
FirstStep(names, query) ==
    IF \E i \in 1..4 : Matches(names, query, i) # {}
    THEN CHOOSE i \in 1..4 :
            /\ Matches(names, query, i) # {}
            /\ \A j \in 1..(i - 1) : Matches(names, query, j) = {}
    ELSE 0

\* C10 Resolution order: get_lowest_bin and get_product_info return a row of
\* the first of the steps exact, exact with spaces, case-insensitive,
\* case-insensitive with spaces that matches (for get_lowest_bin a cheapest
\* live BIN row of that step); the steps with spaces are tried only for a
\* name that has '_' and does not start with 'ENCHANTMENT_'; when no step
\* matches the result is None.
C10_ResolutionOrder ==
    /\ call.op = "get_lowest_bin" =>
        LET live  == {r \in auctions : r.bin = 1 /\ r.claimed = 0}
            names == {r.item_name : r \in live}
            step  == FirstStep(names, call.name)
            hits  == {r \in live : r.item_name \in Matches(names, call.name, step)}
        IN  IF step = 0
            THEN call.result = {}
            ELSE \E r \in hits :
                    /\ \A q \in hits : r.starting_bid <= q.starting_bid
                    /\ call.result = {ItemDict(r)}
    /\ call.op = "get_product_info" =>
        LET names == {r.product_id : r \in bazaar_current}
            step  == FirstStep(names, call.name)
            hits  == {r \in bazaar_current :
                        r.product_id \in Matches(names, call.name, step)}
        IN  IF step = 0
            THEN call.result = {}
            ELSE \E r \in hits : call.result = {ProductDict(r)}

\* get_lowest_bin("A_a") on a snapshot with live BIN listings "A a" and "a_a"
\* and none named "A_a" has returned the listing "A a".
C10_Witness ==
    /\ call.op = "get_lowest_bin"
    /\ call.name = <<"A", "_", "a">>
    /\ \E r \in auctions : r.item_name = <<"a", "_", "a">> /\ r.bin = 1 /\ r.claimed = 0
    /\ \E r \in auctions : r.item_name = <<"A", " ", "a">> /\ r.bin = 1 /\ r.claimed = 0
    /\ \E d \in call.result : d.item_name = <<"A", " ", "a">>

\* C11 (as claimed) With the key "ENCHANTED_DIAMOND" stored, a lookup of
\* "enchanted diamond" returns the stored record: get_product_info for the
\* product, get_lowest_bin for an unclaimed BIN listing of that key.
C11_SpacedNameResolves ==
    /\ ( /\ call.op = "get_product_info"
         /\ call.name = enchanted_diamond
         /\ \E r \in bazaar_current : r.product_id = ENCHANTED_DIAMOND )
        => \E d \in call.result : d.product_id = ENCHANTED_DIAMOND
    /\ ( /\ call.op = "get_lowest_bin"
         /\ call.name = enchanted_diamond
         /\ \E r \in auctions :
                r.item_name = ENCHANTED_DIAMOND /\ r.bin = 1 /\ r.claimed = 0 )
        => \E d \in call.result : d.item_name = ENCHANTED_DIAMOND

\* C12 Sentinel prefix: for a query that starts with ENCHANTMENT_ every row
\* returned matches the raw name exactly or case-insensitively, never the
\* name with underscores replaced by spaces; when no stored key matches the
\* raw name in either way, the lookup returns None even though the
\* space-separated variant is stored.
C12_SentinelPrefixNotConverted ==
    StartsWith(call.name, ENCHANTMENT_) =>
        /\ call.op = "get_lowest_bin" =>
            /\ \A d \in call.result : LOWER(d.item_name) = LOWER(call.name)
            /\ (\A r \in auctions :
                    (r.bin = 1 /\ r.claimed = 0) => LOWER(r.item_name) # LOWER(call.name))
                => call.result = {}
        /\ call.op = "get_product_info" =>
            /\ \A d \in call.result : LOWER(d.product_id) = LOWER(call.name)
            /\ (\A r \in bazaar_current : LOWER(r.product_id) # LOWER(call.name))
                => call.result = {}

\* get_lowest_bin("ENCHANTMENT_A") has returned None on a snapshot whose live
\* BIN listings include one named "ENCHANTMENT A".
C12_Witness ==
    /\ call.op = "get_lowest_bin"
    /\ call.name = ENCHANTMENT_ \o <<"A">>
    /\ \E r \in auctions :
        /\ r.item_name = UnderscoresToSpaces(ENCHANTMENT_ \o <<"A">>)
        /\ r.bin = 1 /\ r.claimed = 0
    /\ call.result = {}

(***************************************************************************)
(* Properties of the valuation of one item, checked under SpecValue.       *)
(***************************************************************************)

\* C13 Best-price rule: for an item found in both markets best_price is the
\* higher of the lowest BIN price and the bazaar instant-sell price
\* (buy_price), market names the market of that price, and the instant-buy
\* price (sell_price) is not what is reported.
C13_BestPriceIsHigher ==
    (call.op = "get_item_value" /\ Len(One(call.result).found_in) = 2) =>
        LET r  == One(call.result)
            ah == One(r.auction_house).lowest_bin
            bz == One(r.bazaar).insta_sell_price
        IN  /\ \E a \in get_lowest_bin(auctions, call.name) : a.price = ah
            /\ \E b \in get_product_info(bazaar_current, call.name) :
                b.buy_price = bz /\ One(r.bazaar).insta_buy_price = b.sell_price
            /\ ah > bz => r.best_price = {ah} /\ r.market = {"auction_house"}
            /\ bz > ah => r.best_price = {bz} /\ r.market = {"bazaar"}
            /\ r.best_price \in {{ah}, {bz}}
            /\ r.total_value = One(r.best_price) * call.quantity

\* Lowest BIN 100 and instant-sell 150 have given 150 / bazaar.
C13_Witness ==
    /\ call.op = "get_item_value"
    /\ \E r \in call.result :
        /\ \E a \in r.auction_house : a.lowest_bin = 100
        /\ \E b \in r.bazaar : b.insta_sell_price = 150 /\ b.insta_buy_price = 160
        /\ r.best_price = {150}
        /\ r.market = {"bazaar"}

\* The Sale Events stored under a name inside the 7-day window.
RecentSales(item_name) ==
    {e \in auction_sales :
        e.item_name = item_name /\ e.sold_timestamp >= now - 7 * 86400000}

\* C15 (as claimed) Velocity sentinel: with no recorded sales of the item,
\* sales_per_day is -1 when the bazaar has no record of it, and 0 when its
\* bazaar record has buy_moving_week 0.
C15_ZeroMovingWeekIsZero ==
    ( /\ call.op = "get_item_value"
      /\ \A e \in auction_sales : e.item_name # call.name ) =>
        LET r == One(call.result)
        IN  /\ r.bazaar = {} => r.sales_per_day = -100
            /\ ( /\ r.bazaar # {}
                 /\ \A b \in get_product_info(bazaar_current, call.name) :
                        b.buy_moving_week = 0 )
                => r.sales_per_day = 0

\* C16 (as claimed) Velocity precedence: when Sale Events of the item lie
\* inside the window sales_per_day is their count over 7 days whatever the
\* bazaar record holds; the bazaar's moving week / 7 appears only when there
\* are none.
C16_SalesAlwaysFirst ==
    call.op = "get_item_value" =>
        LET r      == One(call.result)
            events == RecentSales(call.name)
        IN  /\ events # {} => r.sales_per_day = Round2(Cardinality(events), 7)
            /\ events = {} =>
                \/ r.sales_per_day = -100
                \/ /\ r.bazaar # {}
                   /\ \E b \in get_product_info(bazaar_current, call.name) :
                        /\ b.buy_moving_week # 0
                        /\ r.sales_per_day = Round2(b.buy_moving_week, 7)

\* C16 (amended) Velocity precedence: when the listing-board step has a
\* signal (the item is found on the listing board and Sale Events of the
\* queried name lie inside the window) sales_per_day is their count over 7
\* days whatever the bazaar record holds; the bazaar's moving week / 7
\* appears only when that step had no signal.
C16_BazaarVelocityOnlyAsFallback ==
    call.op = "get_item_value" =>
        LET r      == One(call.result)
            events == RecentSales(call.name)
            signal == r.auction_house # {} /\ events # {}
        IN  /\ signal => r.sales_per_day = Round2(Cardinality(events), 7)
            /\ ~signal =>
                \/ r.sales_per_day = -100
                \/ /\ r.bazaar # {}
                   /\ \E b \in get_product_info(bazaar_current, call.name) :
                        /\ b.buy_moving_week # 0
                        /\ r.sales_per_day = Round2(b.buy_moving_week, 7)

\* An item listed, with one Sale Event in the window and a bazaar record with
\* a moving week of 7, has got sales_per_day 0.14.
C16_Witness ==
    /\ call.op = "get_item_value"
    /\ Cardinality(RecentSales(call.name)) = 1
    /\ \E b \in get_product_info(bazaar_current, call.name) : b.buy_moving_week = 7
    /\ \E r \in call.result :
        r.auction_house # {} /\ r.bazaar # {} /\ r.sales_per_day = 14

\* C17 (as claimed) Velocity under the resolved key: when the item is found
\* on the listing board through any resolution step and Sale Events stored
\* under the resolved item name lie inside the window, sales_per_day is not
\* the -1 sentinel.
C17_VelocityUnderResolvedKey ==
    call.op = "get_item_value" =>
        LET r == One(call.result)
        IN  ( /\ r.auction_house # {}
              /\ \A a \in get_lowest_bin(auctions, call.name) :
                    RecentSales(a.item_name) # {} )
            => r.sales_per_day # -100

\* C18 Sales window: get_sales_per_day returns None exactly when no Sale
\* Event of the item has sold_timestamp inside the trailing window; otherwise
\* total_sales counts exactly the events inside it and min/max sale price are
\* the least and greatest price among them.
C18_SalesWindow ==
    call.op = "get_sales_per_day" =>
        LET events == {e \in auction_sales :
                        /\ e.item_name = call.name
                        /\ e.sold_timestamp >= now - call.days * 86400000}
        IN  /\ call.result = {} <=> events = {}
            /\ \A d \in call.result :
                /\ d.total_sales = Cardinality(events)
                /\ \E e \in events : e.price = d.min_sale_price
                /\ \E e \in events : e.price = d.max_sale_price
                /\ \A e \in events :
                    d.min_sale_price <= e.price /\ e.price <= d.max_sale_price

\* get_sales_per_day("A") over 7 days has counted one sale while a second
\* Sale Event of "A", older than the window, is stored.
C18_Witness ==
    /\ call.op = "get_sales_per_day"
    /\ call.name = <<"A">>
    /\ call.days = 7
    /\ \E e \in auction_sales :
        e.item_name = <<"A">> /\ e.sold_timestamp < now - 7 * 86400000
    /\ \E d \in call.result : d.total_sales = 1

(***************************************************************************)
(* Properties of the valuation of a chest, checked under SpecChest.        *)
(***************************************************************************)

\* The sum of total_value over the entries i..Len(items) that have a price.
RECURSIVE SumFound(_, _)
SumFound(items, i) ==
    IF i > Len(items) THEN 0
    ELSE (IF items[i].best_price # {} THEN items[i].total_value ELSE 0)
         + SumFound(items, i + 1)

\* C14 Single market and not found: an item found in exactly one market has
\* that market's price and name as best_price and market; an item found in
\* neither has best_price None, market None and total_value 0, is counted in
\* items_not_found, not in items_found, and adds nothing to the summary
\* total_value.
C14_SingleMarketOrNotFound ==
    call.op = "calculate_chest_value" =>
        LET r     == One(call.result)
            found == {i \in DOMAIN r.items : r.items[i].found_in # <<>>}
        IN  /\ \A i \in DOMAIN r.items :
                LET v  == r.items[i]
                    ah == get_lowest_bin(auctions, v.item_name)
                    bz == get_product_info(bazaar_current, v.item_name)
                IN  /\ (ah # {} /\ bz = {}) =>
                        /\ \E a \in ah : v.best_price = {a.price}
                        /\ v.market = {"auction_house"}
                    /\ (ah = {} /\ bz # {}) =>
                        /\ \E b \in bz : v.best_price = {b.buy_price}
                        /\ v.market = {"bazaar"}
                    /\ (ah = {} /\ bz = {}) =>
                        /\ v.best_price = {}
                        /\ v.market = {}
                        /\ v.total_value = 0
                        /\ i \notin found
            /\ r.summary.items_not_found = Cardinality(DOMAIN r.items \ found)
            /\ r.summary.items_found = Cardinality(found)
            /\ r.summary.total_value = SumFound([i \in DOMAIN r.items |->
                    IF i \in found THEN r.items[i]
                    ELSE [r.items[i] EXCEPT !.best_price = {}]], 1)

\* A chest of "A", found on the listing board only, and "B", found in
\* neither market, has been valued.
C14_Witness ==
    /\ call.op = "calculate_chest_value"
    /\ \E r \in call.result :
        /\ Len(r.items) = 2
        /\ r.items[1].found_in = <<"auction_house">>
        /\ r.items[1].market = {"auction_house"}
        /\ r.items[2].found_in = <<>>
        /\ r.summary.items_found = 1
        /\ r.summary.items_not_found = 1
        /\ r.summary.total_value = r.items[1].total_value
        /\ r.summary.total_value > 0

\* C19 Chest aggregation: the summary total_value is the sum of total_value
\* over the items found; with a cost, profit = total_value - cost and
\* is_profitable holds exactly when profit > 0; without a cost profit is None.
C19_ChestAggregation ==
    call.op = "calculate_chest_value" =>
        LET r == One(call.result)
        IN  /\ r.summary.total_value = SumFound(r.items, 1)
            /\ \A cost \in call.chest_cost :
                /\ r.summary.profit = {r.summary.total_value - cost}
                /\ r.summary.is_profitable = {r.summary.total_value - cost > 0}
            /\ call.chest_cost = {} => r.summary.profit = {}

\* Item A, quantity 1, at 100 and item B, quantity 2, at 50 each with cost
\* 150 have given total 200, profit 50, profitable.
C19_Witness ==
    /\ call.op = "calculate_chest_value"
    /\ call.chest_cost = {150}
    /\ \E r \in call.result :
        /\ Len(r.items) = 2
        /\ r.items[1].quantity = 1 /\ r.items[1].best_price = {100}
        /\ r.items[2].quantity = 2 /\ r.items[2].best_price = {50}
        /\ r.summary.total_value = 200
        /\ r.summary.profit = {50}
        /\ r.summary.is_profitable = {TRUE}

\* C20 ROI guard: with a cost of 0 the call completes without a division by
\* zero, roi_percent is 0 and profit equals total_value; roi_percent is
\* profit / cost * 100 only when cost > 0.
C20_RoiGuard ==
    call.op = "calculate_chest_value" =>
        LET r == One(call.result)
        IN  /\ \A roi \in r.summary.roi_percent : roi.den # 0
            /\ \A cost \in call.chest_cost :
                /\ cost = 0 =>
                    /\ r.summary.roi_percent = {[num |-> 0, den |-> 1]}
                    /\ r.summary.profit = {r.summary.total_value}
                /\ cost > 0 =>
                    r.summary.roi_percent =
                        {[num |-> (r.summary.total_value - cost) * 100, den |-> cost]}

\* A chest worth more than nothing has been valued at cost 0.
C20_Witness ==
    /\ call.op = "calculate_chest_value"
    /\ call.chest_cost = {0}
    /\ \E r \in call.result :
        /\ r.summary.total_value > 0
        /\ r.summary.profit = {r.summary.total_value}
        /\ r.summary.roi_percent = {[num |-> 0, den |-> 1]}

\* The named items of a request.
Named(items) == SelectSeq(items, LAMBDA item : item.name # <<>>)

\* C21 Nameless items skipped: an item with an empty or missing name adds no
\* entry to the result's items list and changes no counter and no total, so
\* the list holds the named items in order, items_found + items_not_found is
\* its length and at most total_items.
C21_NamelessItemsSkipped ==
    call.op = "calculate_chest_value" =>
        LET r == One(call.result)
        IN  /\ Len(r.items) = Len(Named(call.items))
            /\ \A i \in DOMAIN r.items :
                /\ r.items[i].item_name = Named(call.items)[i].name
                /\ r.items[i].quantity = Named(call.items)[i].quantity
            /\ r.summary.items_found + r.summary.items_not_found = Len(r.items)
            /\ Len(r.items) <= r.summary.total_items
            /\ r.summary.total_items = Len(call.items)
            /\ r.summary.total_value = SumFound(r.items, 1)

\* A chest of a nameless item followed by a named one that is found has been
\* valued: one entry, one item found, total_items 2.
C21_Witness ==
    /\ call.op = "calculate_chest_value"
    /\ Len(call.items) = 2
    /\ call.items[1].name = <<>>
    /\ call.items[2].name # <<>>
    /\ \E r \in call.result :
        /\ Len(r.items) = 1
        /\ r.summary.items_found = 1
        /\ r.summary.items_not_found = 0
        /\ r.summary.total_items = 2

(***************************************************************************)
(* Properties of the listing queries, checked under SpecQuery.             *)
(***************************************************************************)

\* C22 Lowest BIN: when unclaimed BIN listings with exactly the queried item
\* name are stored, get_lowest_bin returns one of them, priced at or below
\* every other; a claimed or auction-type listing is never returned, cheaper
\* or not.
C22_LowestLiveBin ==
    ( /\ call.op = "get_lowest_bin"
      /\ \E r \in auctions :
            r.item_name = call.name /\ r.bin = 1 /\ r.claimed = 0 ) =>
        \E d \in call.result : \E r \in auctions :
            /\ r.uuid = d.uuid
            /\ r.item_name = call.name
            /\ d.item_name = call.name
            /\ r.bin = 1
            /\ r.claimed = 0
            /\ d.price = r.starting_bid
            /\ \A q \in auctions :
                (q.item_name = call.name /\ q.bin = 1 /\ q.claimed = 0)
                    => d.price <= q.starting_bid

\* get_lowest_bin("A_a") has returned the unclaimed BIN listing u2 at 200
\* although listing u1 of the same name, claimed or auction-type, is at 100.
C22_Witness ==
    /\ call.op = "get_lowest_bin"
    /\ call.name = <<"A", "_", "a">>
    /\ \E r \in auctions :
        /\ r.uuid = "u1"
        /\ r.item_name = call.name
        /\ r.starting_bid = 100
        /\ (r.bin = 0 \/ r.claimed = 1)
    /\ \E d \in call.result : d.uuid = "u2" /\ d.price = 200

\* C23 Cheapest listings: get_cheapest_listings(key, limit) returns at most
\* limit listings, each a distinct current unclaimed BIN listing with exactly
\* the given item name, in non-decreasing price order, and no matching
\* listing that was left out is cheaper than a returned one.
C23_CheapestListings ==
    call.op = "get_cheapest_listings" =>
        LET listings == call.result
            matching == {r \in auctions :
                            r.item_name = call.name /\ r.bin = 1 /\ r.claimed = 0}
            returned == {listings[i].uuid : i \in DOMAIN listings}
        IN  /\ Len(listings) <= call.limit
            /\ \A i \in DOMAIN listings : \E r \in matching :
                r.uuid = listings[i].uuid /\ r.starting_bid = listings[i].price
            /\ \A i \in DOMAIN listings : \A j \in DOMAIN listings :
                i < j => /\ listings[i].price <= listings[j].price
                         /\ listings[i].uuid # listings[j].uuid
            /\ \A r \in matching : r.uuid \notin returned =>
                \A i \in DOMAIN listings : listings[i].price <= r.starting_bid

\* get_cheapest_listings("A_a", 1) has returned the listing at 100 and left
\* out the one at 200.
C23_Witness ==
    /\ call.op = "get_cheapest_listings"
    /\ call.name = <<"A", "_", "a">>
    /\ call.limit = 1
    /\ Len(call.result) = 1
    /\ call.result[1].price = 100
    /\ \E r \in auctions :
        /\ r.item_name = call.name /\ r.bin = 1 /\ r.claimed = 0
        /\ r.starting_bid = 200

\* C25 Stores never ingested: with both stores and both update logs empty,
\* calculate_chest_value returns, for every named item, the get_item_value
\* result with found_in empty, best_price None and total_value 0, counts each
\* in items_not_found, totals 0, and reports None as the last update of both
\* markets.
C25_EmptyStoresNotFound ==
    ( /\ call.op = "calculate_chest_value"
      /\ auctions = {} /\ auction_sales = {} /\ update_log = <<>>
      /\ bazaar_current = {} /\ bazaar_log = <<>> ) =>
        \E r \in call.result :
            /\ Len(r.items) = Len(Named(call.items))
            /\ \A i \in DOMAIN r.items :
                /\ r.items[i].found_in = <<>>
                /\ r.items[i].best_price = {}
                /\ r.items[i].market = {}
                /\ r.items[i].total_value = 0
                /\ r.items[i].sales_per_day = -100
            /\ r.summary.items_found = 0
            /\ r.summary.items_not_found = Len(Named(call.items))
            /\ r.summary.total_value = 0
            /\ r.last_updated.auction_house.last_update_timestamp = {}
            /\ r.last_updated.bazaar.last_update_timestamp = {}

\* A chest of two named items has been valued on empty stores.
C25_Witness ==
    /\ call.op = "calculate_chest_value"
    /\ auctions = {} /\ update_log = <<>>
    /\ bazaar_current = {} /\ bazaar_log = <<>>
    /\ Len(Named(call.items)) = 2
    /\ \E r \in call.result : r.summary.items_not_found = 2

(***************************************************************************)
(* Further properties of the listing store, checked under Spec.            *)
(***************************************************************************)

\* C26 Sale Events only for vanished live listings: a store_auctions call
\* adds or overwrites a row of auction_sales only for an id that was in the
\* snapshot in place before the call's replace with bin = 1 and claimed = 0
\* and is not among the poll's ids; an id still in the poll (claimed by now
\* or not) and an id that was auction-type or claimed get none.
C26_SaleEventOnlyIfVanishedLive ==
    [][StoreStep =>
        \A s \in auction_sales' \ auction_sales :
            /\ \E r \in auctions : r.uuid = s.uuid /\ r.bin = 1 /\ r.claimed = 0
            /\ \A i \in DOMAIN call'.poll : call'.poll[i].uuid # s.uuid]_vars

\* C28 Live and sold are exclusive: in every reachable state no listing id
\* is both a row of the snapshot with bin = 1 and claimed = 0 and the uuid
\* of a row of auction_sales.
C28_NoLiveListingWithSaleEvent ==
    \A r \in auctions :
        r.bin = 1 /\ r.claimed = 0 => SalesOf(auction_sales, r.uuid) = {}

(***************************************************************************)
(* Further properties of the update cycles, checked under SpecCycle.       *)
(***************************************************************************)

\* The last cycle was an update whose store_bazaar_data committed.
BazaarIngested == call.op = "update" /\ call.status = "ok" /\ ~call.raised

\* C24 Bazaar ingest replaces current and appends history: after an update
\* whose store_bazaar_data committed, bazaar_current holds exactly one row
\* for every product of the poll, with the poll's prices and timestamp, and
\* no row for any other product, and bazaar_products holds a row for every
\* product of the poll at the poll's timestamp.
C24_CurrentReplacedHistoryAppended ==
    BazaarIngested =>
        /\ \A p \in DOMAIN call.products :
            /\ {r \in bazaar_current : r.product_id = p}
                 = {BazaarRow(p, call.products[p], call.timestamp)}
            /\ \E h \in bazaar_products :
                h.product_id = p /\ h.timestamp = call.timestamp
        /\ \A r \in bazaar_current : r.product_id \in DOMAIN call.products

\* A poll with product A was ingested after an earlier poll that had A
\* too: the history holds both rows, bazaar_current only the later one.
C24_Witness ==
    /\ BazaarIngested
    /\ DOMAIN call.products = {<<"A">>}
    /\ \E h \in bazaar_products : h.timestamp < call.timestamp
    /\ Cardinality(bazaar_current) = 1
    /\ Cardinality(bazaar_products) = 2

\* C27 A skipped page creates no Sale Event: a fetch_all_auctions cycle
\* adds or overwrites a row of auction_sales only for an id that is not on
\* the upstream board, also when a page after the first failed to fetch.
C27_SkippedPageIsNotSold ==
    [][call'.op = "fetch_all_auctions" /\ call'.status = "ok" =>
        \A s \in auction_sales' \ auction_sales : s.uuid \notin call'.board]_vars

(***************************************************************************)
(* Properties of reads beside a fetch cycle, checked under SpecFetch.      *)
(***************************************************************************)

\* C29 A lookup sees one snapshot: what a get_lowest_bin call returns while
\* store_auctions runs beside it is what get_lowest_bin returns on one of
\* the snapshots its queries found, the one before the ingest or the one
\* after it.
C29_LookupOfOneSnapshot ==
    (call.op = "get_lowest_bin" /\ call.at = "done") =>
        \E table \in call.seen :
            IF call.result = {}
            THEN get_lowest_bin(table, call.name) = {}
            ELSE {ItemDict(r) : r \in call.result} \subseteq get_lowest_bin(table, call.name)

\* C30 (as claimed) No lock while fetching: while a process is fetching
\* pages no connection of it has a write transaction open and no step
\* changes the listing store;
\* the snapshot, the history and the sales change only at the COMMIT of
\* store_auctions, after the last page was fetched, and the update log only
\* in the log_update_cycle that follows it.
C30_NoLockWhileFetching ==
    [][/\ \A w \in Fetchers :
            pc[w] = "pages" =>
                /\ ~tx[w].open /\ ~tx'[w].open
                /\ UNCHANGED listingStore
       /\ <<auctions, auction_history, auction_sales>>'
            # <<auctions, auction_history, auction_sales>> =>
                \E w \in Fetchers :
                    /\ pc[w] = "commit"
                    /\ loc[w].page >= loc[w].upstream.totalPages
       /\ update_log' # update_log => \E w \in Fetchers : pc[w] = "log_insert"]_vars

(***************************************************************************)
(* Properties of the records store_auctions keeps, checked under Spec.     *)
(***************************************************************************)

\* C31 first_seen is the first observation: the Sale Event a store_auctions
\* call writes for a listing carries as first_seen the timestamp of the
\* first of the consecutive polls that observed the listing before it
\* vanished, and as price the price of its last observation.
C31_FirstSeenIsFirstObservation ==
    [][StoreStep =>
        \A s \in auction_sales' \ auction_sales :
            /\ s.first_seen = call.observed[s.uuid]
            /\ \E r \in previous_auctions(auctions) :
                r.uuid = s.uuid /\ r.starting_bid = s.price]_vars

\* The ids of the listings of a poll that are BIN and unclaimed.
LivePollIds(poll) == {poll[i].uuid : i \in {j \in DOMAIN poll : IsLiveBin(poll[j])}}

\* C32 History is append-only, one row per live BIN and poll: no step
\* removes or changes a row of auction_history; after a store_auctions call
\* the table holds exactly one row with the poll's timestamp for every
\* listing of the poll that is BIN and unclaimed, and the rows the call
\* added are such rows only.
C32_HistoryAppendOnly ==
    [][/\ auction_history \subseteq auction_history'
       /\ StoreStep =>
            /\ \A u \in LivePollIds(call'.poll) :
                Cardinality({h \in auction_history' :
                    h.uuid = u /\ h.fetch_timestamp = call'.ts}) = 1
            /\ \A h \in auction_history' \ auction_history :
                /\ h.uuid \in LivePollIds(call'.poll)
                /\ h.fetch_timestamp = call'.ts
                /\ h.bin = 1 /\ h.claimed = 0]_vars

\* The last poll held a live BIN and a listing that is claimed or
\* auction-type: the history has a row for the first at the poll's time
\* beside a row of an earlier poll, and none for the second.
C32_Witness ==
    /\ call.op = "store_auctions"
    /\ \E i \in DOMAIN call.poll : \E j \in DOMAIN call.poll :
        /\ IsLiveBin(call.poll[i])
        /\ ~IsLiveBin(call.poll[j])
        /\ call.poll[j].uuid # call.poll[i].uuid
        /\ \E h \in auction_history :
            h.uuid = call.poll[i].uuid /\ h.fetch_timestamp = call.ts
        /\ \A h \in auction_history : h.uuid # call.poll[j].uuid
    /\ \E h \in auction_history : h.fetch_timestamp < call.ts

\* C33 Sale Events are never deleted: no step removes an id from
\* auction_sales, and a row of it changes only in a store_auctions call
\* that detects its id as vanished again.
C33_SaleEventsKept ==
    [][/\ \A s \in auction_sales : SalesOf(auction_sales', s.uuid) # {}
       /\ \A s \in auction_sales \ auction_sales' :
            /\ StoreStep
            /\ s.uuid \in sold_uuids(call'.previous, call'.poll)]_vars

\* The last call overwrote the Sale Event of a listing that vanished again,
\* and the Sale Event of another listing, written by an earlier poll, is
\* still there.
C33_Witness ==
    /\ call.op = "store_auctions"
    /\ \E u \in call.resold :
        /\ \E s \in SalesOf(auction_sales, u) : s.sold_timestamp = call.ts
        /\ \E s \in auction_sales : s.uuid # u /\ s.sold_timestamp < call.ts

(***************************************************************************)
(* Properties of failing bazaar updates, checked under SpecCycle.          *)
(***************************************************************************)

\* C35 A failed bazaar store commits nothing: an update whose
\* store_bazaar_data raised part-way leaves bazaar_current and the history
\* table bazaar_products as they were before the call.
C35_FailedStoreRolledBack ==
    [][(now' = now /\ call'.op = "update" /\ call'.raised) =>
        UNCHANGED <<bazaar_current, bazaar_products>>]_vars

\* The last update raised on a poll whose lastUpdated was already in the
\* history, while bazaar_current holds the rows of a poll with another
\* timestamp.
C35_Witness ==
    /\ call.op = "update"
    /\ call.raised
    /\ DOMAIN call.products # {}
    /\ \E h \in bazaar_products : h.timestamp = call.timestamp
    /\ bazaar_current # {}
    /\ \A r \in bazaar_current : r.timestamp # call.timestamp

(***************************************************************************)
(* Properties of the update loops, checked under SpecLoop (C36) and under  *)
(* SpecLoopFair (C34).                                                     *)
(***************************************************************************)

\* Loop l is at a call of update or fetch_all_auctions.
AtAttempt(l) == pc[l] \in {"cycle", "bazaar", "auctions"}

\* The last cycle of loop l failed and the loop has not made a call since.
AfterFailure(l) == loc[l] \in {"failed", "raised"} /\ pc[l] \in {"wait", "retry"}

\* C34 A failed cycle does not end a loop: once a cycle of a loop failed to
\* fetch or raised, the loop comes to its next ingest call, unless it is
\* run_continuous and a KeyboardInterrupt stops it; nothing but the
\* KeyboardInterrupt takes a loop out of its cycle of calls and sleeps.
C34_LoopsSurviveFailure ==
    /\ \A l \in Loops : AfterFailure(l) ~> (AtAttempt(l) \/ pc[l] = "stopped")
    /\ [](\A l \in Loops :
            pc[l] \in {"off", "initial_bazaar", "initial_auctions", "wait", "bazaar",
                       "auctions", "cycle", "retry", "stopped"} \cup LogPositions)
    /\ [](pc["background"] # "stopped")

\* The background fetcher is back at its bazaar update after a cycle that
\* raised, with both stores filled by earlier cycles.
C34_Witness ==
    /\ pc["background"] = "bazaar"
    /\ loc["background"] = "raised"
    /\ update_log # <<>>
    /\ bazaar_log # <<>>

\* C36 The stores are updated independently: when the bazaar update of a
\* cycle of the background fetcher raises, the fetcher goes on to the
\* listing update of that cycle.
C36_BazaarFailureKeepsListingUpdate ==
    [][(pc["background"] \in {"initial_bazaar", "bazaar", "initial_bazaar_log", "bazaar_log"}
            /\ pc'["background"] # pc["background"]
            /\ loc'["background"] = "raised") =>
        pc'["background"] \in {"initial_auctions", "auctions"}]_vars

(***************************************************************************)
(* C37.  The queries get_lowest_bin, get_product_info,                     *)
(* get_cheapest_listings, get_sales_per_day, get_item_value,               *)
(* calculate_chest_value, the searches search_items, get_item_sales_stats, *)
(* search_products and get_price_history and the lists get_all_bin_items   *)
(* and get_all_products leave every stored table as it was: a step that    *)
(* answers a query changes none of the seven tables, and a step that       *)
(* changes one of them is a call of fetch_all_auctions or update made by   *)
(* an update loop.                                                         *)
(***************************************************************************)
IngestStep ==
    \E l \in Loops :
        /\ pc[l] \in {"initial_bazaar", "initial_auctions", "bazaar", "auctions", "cycle"}
                        \cup LogPositions
        /\ pc'[l] # pc[l]

C37_QueriesLeaveStoresUnchanged ==
    [][/\ call' # call => UNCHANGED <<listingStore, bazaarStore>>
       /\ ~(UNCHANGED <<listingStore, bazaarStore>>) => IngestStep /\ call' = call]_vars

\* get_item_value has priced an item found in both markets, on stores that
\* ingests of listings and of bazaar data have filled.
C37_Witness ==
    /\ call.op = "get_item_value"
    /\ update_log # <<>>
    /\ bazaar_log # <<>>
    /\ auctions # {}
    /\ bazaar_products # {}
    /\ \E r \in call.result : r.best_price # {} /\ Len(r.found_in) = 2

(***************************************************************************)
(* C38.  Every result of get_item_value: best_price is None exactly when   *)
(* found_in is empty; a best_price that is not None comes with             *)
(* total_value = best_price * quantity and a market that is listed in      *)
(* found_in; an item found in both markets at equal prices has market      *)
(* auction_house.                                                          *)
(***************************************************************************)
C38_ValuationConsistent ==
    call.op = "get_item_value" =>
        \A r \in call.result :
            /\ r.best_price = {} <=> r.found_in = <<>>
            /\ r.best_price # {} =>
                /\ r.total_value = One(r.best_price) * call.quantity
                /\ r.market # {}
                /\ \E i \in DOMAIN r.found_in : r.found_in[i] = One(r.market)
            /\ \A a \in r.auction_house : \A b \in r.bazaar :
                    a.lowest_bin = b.insta_sell_price => r.market = {"auction_house"}

\* Two of an item listed at 200 and sold to the bazaar at 200 are valued at
\* 400 on the auction house.
C38_Witness ==
    /\ call.op = "get_item_value"
    /\ call.quantity = 2
    /\ \E r \in call.result :
        /\ r.found_in = <<"auction_house", "bazaar">>
        /\ \E a \in r.auction_house : a.lowest_bin = 200
        /\ \E b \in r.bazaar : b.insta_sell_price = 200
        /\ r.best_price = {200}
        /\ r.total_value = 400
        /\ r.market = {"auction_house"}

====
